---- MODULE Spec2Model ----
(***************************************************************************)
(* A model of the aurora renderer: the deletion queue, the engine's        *)
(* swapchain life cycle, the pool of frame slots with their fences, the    *)
(* immediate submission channel, the run loop and the teardown.  The CPU   *)
(* is one thread (pc is its position); the GPU is the only other actor    *)
(* and retires submitted work at its own pace.                             *)
(***************************************************************************)
EXTENDS Integers, Sequences, FiniteSets, TLC

(* ------------------------------ bounds --------------------------------- *)
MaxFrames == 3          \* frames the run loop may start
MaxSwapchains == 4      \* swapchains that may ever be created
MaxMaterials == 1       \* materials in the loaded scene file
MaxMeshes == 2          \* meshes in the loaded scene file
MaxQueueLen == 3        \* closures in a stand-alone DeletionQueue
NumClosures == 3        \* distinct closures offered to a stand-alone queue
MaxVertices == 3        \* vertices handed to one create_mesh
MaxIndices == 6         \* indices handed to one create_mesh
MaxSyncFrames == 3      \* frames of the loop with the semaphores in view
MaxEvents == 3          \* events waiting in the stream when App::run is entered

(* -------------------------- program constants ------------------------- *)
NUM_FRAMES_IN_FLIGHT == 2
SizeofVertex == 32      \* sizeof(Vertex)
SizeofIndex == 4        \* sizeof(uint32_t)

Slots == 0 .. (NUM_FRAMES_IN_FLIGHT - 1)
SyncFrames == 1 .. MaxSyncFrames

\* No submission has been made in a slot yet.
NoBatch == [frame |-> 0, state |-> "none", waited |-> FALSE, executed |-> {},
            signaled |-> FALSE]

VARIABLES
    pc,                 \* position of the CPU thread
    alive,              \* native objects that exist (created, not destroyed)
    misuse,             \* objects destroyed while they did not exist
    destroyLog,         \* every destroy call, in program order
    m_deletion_queue,   \* Engine::m_deletion_queue
    m_swapchain,        \* Engine::m_swapchain: generation, handle, views
    nextSc,             \* the identity the next created swapchain gets
    m_frame_idx,        \* Engine::m_frame_idx
    fence,              \* FrameData::fence of each slot: TRUE = signaled
    cmd,                \* FrameData::cmd_buffer state of each slot
    recorded,           \* the commands recorded into each slot's command buffer
    frameDq,            \* FrameData::deletion_queue of each slot
    inflight,           \* slots whose submission the GPU has not finished
    immFence,           \* m_immediate_commands.fence: TRUE = signaled
    immCmd,             \* m_immediate_commands.cmd_buffer state
    immInflight,        \* immediate submissions the GPU has not finished
    immTrace,           \* native calls of the current immediate_submit
    immCaller,          \* who called immediate_submit
    immResult,          \* what immediate_submit returned last
    appDq,              \* App::m_deletion_queue
    forwardDq,          \* ForwardPass::m_deletion_queue
    imguiDq,            \* ImGuiPass::m_deletion_queue
    m_disable_render,   \* App::m_disable_render
    scene,              \* App::m_scene: meshes and materials
    load,               \* progress of create_scene_from_file
    refreshCaller,      \* who called refresh_swapchain
    refreshEntry,       \* what refresh_swapchain found when it was called
    frameNo,            \* number of the frame the CPU works on
    inflightFrame,      \* frame number submitted last in each slot
    completedFrames,    \* frame numbers the GPU has finished
    lastAcquire,        \* result of the last vkAcquireNextImageKHR
    lastPresent,        \* result of the last vkQueuePresentKHR
    refreshCalls,       \* calls of refresh_swapchain so far
    lastRefresh,        \* how the last refresh_swapchain ended
    resizes,            \* resize events handled so far
    dtorPending,        \* submissions unfinished when the App was destroyed
    exitWhy,            \* why App::run returned
    exit_status,        \* what main returned; -1 while it has not
    tq,                 \* a stand-alone DeletionQueue: m_queue
    tqBefore,           \* m_queue when delete_all was last called
    tlog,               \* closures run by the last delete_all, in order
    tflushes,           \* delete_all calls since the last add (2: two or more)
    mpc,                \* position inside one call of App::create_mesh
    vertices,           \* create_mesh's argument: the bytes of the vertex span
    indices,            \* create_mesh's argument: the bytes of the index span
    transfer_buffer,    \* bytes of the staging buffer
    vertex_buffer,      \* bytes of out_mesh.vertex_buffer
    index_buffer,       \* bytes of out_mesh.index_buffer
    copies,             \* the copy regions recorded for the immediate submit
    spc,                \* position of the CPU in the frame loop, semaphores in view
    sidx,               \* m_frame_idx in that loop
    sframe,             \* number of the frame the CPU works on in that loop
    render_semaphore,   \* FrameData::render_semaphore of each slot
    present_semaphore,  \* FrameData::present_semaphore of each slot
    sfence,             \* FrameData::fence of each slot: TRUE = signaled
    acquired,           \* the swapchain image acquired for each frame
    batch,              \* the submission made last in each slot
    finished,           \* frames whose submission has signaled its present_semaphore
    present_request,    \* the present request of each frame
    lpc,                \* position of App::run, its event stream in view
    event_queue,        \* the events SDL_PollEvent has yet to deliver
    loop_disable_render,\* m_disable_render in that loop
    loop_idx,           \* m_frame_idx in that loop
    loop_inflight,      \* slots whose submission the GPU has not finished
    polls,              \* iterations of the loop begun so far (capped)
    polled,             \* events SDL_PollEvent has delivered so far
    rendered,           \* frames rendered since the last poll (capped)
    last_event,         \* the event of the last poll, "none" without one
    loop_exit           \* why App::run returned, "none" while it runs

worldVars == <<alive, misuse, destroyLog, m_swapchain, nextSc, scene>>
frameVars == <<m_frame_idx, fence, cmd, recorded, frameDq, inflight, frameNo, inflightFrame,
               completedFrames, lastAcquire, lastPresent>>
immVars == <<immFence, immCmd, immInflight, immTrace, immCaller, immResult>>
queueVars == <<m_deletion_queue, appDq, forwardDq, imguiDq>>
refreshVars == <<refreshCaller, refreshEntry, refreshCalls, lastRefresh>>
appVars == <<m_disable_render, load, refreshVars, resizes, exitWhy, dtorPending,
             exit_status>>
dqVars == <<tq, tqBefore, tlog, tflushes>>
syncVars == <<spc, sidx, sframe, render_semaphore, present_semaphore, sfence, acquired,
              batch, finished, present_request>>
loopVars == <<lpc, event_queue, loop_disable_render, loop_idx, loop_inflight, polls, polled,
              rendered, last_event, loop_exit>>
meshVars == <<mpc, vertices, indices, transfer_buffer, vertex_buffer, index_buffer, copies>>
vars == <<pc, worldVars, queueVars, frameVars, immVars, appVars, dqVars, meshVars, syncVars, loopVars>>

(* ----------------------------- objects --------------------------------- *)
\* A native object, and also a closure of a deletion queue: the closure
\* R(k, a) destroys the object R(k, a), except for the kinds named below.
R(k, a) == [kind |-> k, arg |-> a]

\* The world the destroy calls act on.
\* queue is the deletion queue of the object whose method is running.
World(q) == [alive |-> alive, misuse |-> misuse, log |-> destroyLog,
             m_swapchain |-> m_swapchain, nextSc |-> nextSc,
             scene |-> scene, queue |-> q, ran |-> <<>>]

\* vkCreate* / vmaCreate*: the object exists from now on.
Create(w, r) == [w EXCEPT !.alive = @ \cup {r}]

\* vkDestroy* / vmaDestroy*: the object stops existing; destroying an
\* object that does not exist is recorded as a misuse.
Destroy(w, r) ==
    [w EXCEPT !.alive = @ \ {r},
              !.misuse = IF r \in w.alive THEN @ ELSE @ \cup {r},
              !.log = Append(@, r)]

\* Engine::destroy_image: the view first, then the image and its memory.
destroy_image(w, img) == Destroy(Destroy(w, R(img.view, img.arg)), R(img.image, img.arg))

MaterialImage(i) == [image |-> "material.image", view |-> "material.view", arg |-> i]
RenderTarget == [image |-> "render_target.image", view |-> "render_target.view", arg |-> 0]
DepthTarget == [image |-> "depth_target.image", view |-> "depth_target.view", arg |-> 0]

RECURSIVE destroy_meshes(_, _, _)
\* App::destroy_mesh for meshes[from ..]: vertex buffer, then index buffer.
destroy_meshes(w, meshes, from) ==
    IF from > Len(meshes) THEN w
    ELSE destroy_meshes(
             Destroy(Destroy(w, R("mesh.vertex_buffer", meshes[from])),
                     R("mesh.index_buffer", meshes[from])),
             meshes, from + 1)

RECURSIVE destroy_materials(_, _, _)
\* App::destroy_material for materials[from ..].
destroy_materials(w, materials, from) ==
    IF from > Len(materials) THEN w
    ELSE destroy_materials(destroy_image(w, MaterialImage(materials[from])),
                           materials, from + 1)

\* (variant: the lists are not cleared)
destroy_scene_NoClear(w) ==
    destroy_materials(destroy_meshes(w, w.scene.meshes, 1), w.scene.materials, 1)

\* App::destroy_scene: every mesh, every material, then the lists are cleared.
destroy_scene(w) ==
    LET w1 == destroy_meshes(w, w.scene.meshes, 1)
        w2 == destroy_materials(w1, w.scene.materials, 1)
    IN  [w2 EXCEPT !.scene = [meshes |-> <<>>, materials |-> <<>>]]

(* --------------------------- DeletionQueue ----------------------------- *)
\* What a queued closure does when it is called.
RunClosure(w, c) ==
    LET w0 == [w EXCEPT !.ran = Append(@, c)]
    IN  CASE c.kind = "swapchain_guard" ->
                 \* init_swapchain's entry: acts only for its own generation
                 IF w0.m_swapchain.generation = c.arg
                 THEN Destroy(Destroy(w0, R("image_views", w0.m_swapchain.image_views)),
                              R("swapchain", w0.m_swapchain.swapchain))
                 ELSE w0
          [] c.kind = "instance" ->
                 Destroy(Destroy(w0, R("debug_messenger", 0)), R("instance", 0))
          [] c.kind = "frame.cmd_buffer" -> Destroy(w0, c)
          [] c.kind = "imgui" ->
                 Destroy(Destroy(w0, R("imgui_backend", 0)), R("imgui_descriptor_pool", 0))
          [] c.kind = "render_target" -> destroy_image(w0, RenderTarget)
          [] c.kind = "depth_target" -> destroy_image(w0, DepthTarget)
          [] c.kind = "destroy_scene" -> destroy_scene(w0)
          [] c.kind = "probe" -> w0
          [] OTHER -> Destroy(w0, c)

RECURSIVE delete_all_from(_, _, _)
\* DeletionQueue::delete_all's loop: it = rbegin .. rend, here i = Len(q) .. 1.
delete_all_from(w, q, i) ==
    IF i = 0 THEN w
    ELSE delete_all_from(RunClosure(w, q[i]), q, i - 1)

RECURSIVE delete_all_forward_from(_, _, _)
delete_all_forward_from(w, q, i) ==
    IF i > Len(q) THEN w
    ELSE delete_all_forward_from(RunClosure(w, q[i]), q, i + 1)

\* (variant: the closures are called in insertion order)
delete_all_Forward(w, q) == delete_all_forward_from(w, q, 1)

\* DeletionQueue::delete_all: the world after every closure of q has been called.
\* (The caller clears the queue.)
delete_all(w, q) == delete_all_from(w, q, Len(q))

(* ----------------------------- swapchain ------------------------------- *)
\* (variant: the entry captures generation 0 whatever the generation is)
init_swapchain_CapturesZero(w, ok) ==
    IF ~ok THEN w
    ELSE LET id == w.nextSc
             w1 == Create(Create(w, R("swapchain", id)), R("image_views", id))
         IN  [w1 EXCEPT !.m_swapchain = [generation |-> w.m_swapchain.generation,
                                         swapchain |-> id, image_views |-> id],
                        !.nextSc = id + 1,
                        !.queue = Append(@, R("swapchain_guard", 0))]

\* (variant: the entry is added whether the builder succeeds or not)
init_swapchain_GuardOnFailure(w, ok) ==
    IF ~ok THEN [w EXCEPT !.queue = Append(@, R("swapchain_guard", w.m_swapchain.generation))]
    ELSE LET id == w.nextSc
             w1 == Create(Create(w, R("swapchain", id)), R("image_views", id))
         IN  [w1 EXCEPT !.m_swapchain = [generation |-> w.m_swapchain.generation,
                                         swapchain |-> id, image_views |-> id],
                        !.nextSc = id + 1,
                        !.queue =
                            Append(@, R("swapchain_guard", w.m_swapchain.generation))]

\* Engine::init_swapchain; ok is whether the builder succeeds.
init_swapchain(w, ok) ==
    IF ~ok THEN w
    ELSE LET id == w.nextSc
             w1 == Create(Create(w, R("swapchain", id)), R("image_views", id))
         IN  [w1 EXCEPT !.m_swapchain = [generation |-> w.m_swapchain.generation,
                                         swapchain |-> id, image_views |-> id],
                        !.nextSc = id + 1,
                        !.queue =
                            Append(@, R("swapchain_guard", w.m_swapchain.generation))]

(* ---------------------------- Engine::init ----------------------------- *)
Step(k, a, failable, creates, adds) ==
    [obj |-> R(k, a), failable |-> failable, creates |-> creates, adds |-> adds]

FrameSteps(s) ==
    << Step("frame.cmd_pool", s, TRUE, TRUE, TRUE),
       Step("frame.cmd_buffer", s, TRUE, TRUE, TRUE),
       Step("frame.present_semaphore", s, TRUE, TRUE, TRUE),
       Step("frame.render_semaphore", s, TRUE, TRUE, TRUE),
       Step("frame.fence", s, TRUE, TRUE, TRUE) >>

RECURSIVE AllFrameSteps(_)
AllFrameSteps(s) ==
    IF s = NUM_FRAMES_IN_FLIGHT THEN <<>> ELSE FrameSteps(s) \o AllFrameSteps(s + 1)

\* (variant: the allocator is made and queued before the device)
EngineInitSteps_AllocatorFirst ==
    << Step("instance", 0, TRUE, TRUE, TRUE),
       Step("surface", 0, TRUE, TRUE, TRUE),
       Step("physical_device", 0, TRUE, FALSE, FALSE),
       Step("allocator", 0, FALSE, TRUE, TRUE),
       Step("device", 0, TRUE, TRUE, TRUE),
       Step("init_swapchain", 0, TRUE, FALSE, FALSE),
       Step("descriptor_pool", 0, TRUE, TRUE, TRUE),
       Step("graphics_queue", 0, TRUE, FALSE, FALSE) >>
    \o AllFrameSteps(0)
    \o << Step("imm.cmd_pool", 0, TRUE, TRUE, TRUE),
          Step("imm.cmd_buffer", 0, TRUE, TRUE, TRUE),
          Step("imm.fence", 0, TRUE, TRUE, TRUE) >>

\* The steps of Engine::init in program order: what each creates, whether it
\* can fail, and whether it appends a closure to m_deletion_queue.
EngineInitSteps ==
    << Step("instance", 0, TRUE, TRUE, TRUE),
       Step("surface", 0, TRUE, TRUE, TRUE),
       Step("physical_device", 0, TRUE, FALSE, FALSE),
       Step("device", 0, TRUE, TRUE, TRUE),
       Step("allocator", 0, FALSE, TRUE, TRUE),
       Step("init_swapchain", 0, TRUE, FALSE, FALSE),
       Step("descriptor_pool", 0, TRUE, TRUE, TRUE),
       Step("graphics_queue", 0, TRUE, FALSE, FALSE) >>
    \o AllFrameSteps(0)
    \o << Step("imm.cmd_pool", 0, TRUE, TRUE, TRUE),
          Step("imm.cmd_buffer", 0, TRUE, TRUE, TRUE),
          Step("imm.fence", 0, TRUE, TRUE, TRUE) >>

\* (variant: a failed view leaves the image allocated)
create_image_NoRollback(w, img, how) ==
    CASE how = "ok" -> Create(Create(w, R(img.image, img.arg)), R(img.view, img.arg))
      [] how = "view_fails" -> Create(w, R(img.image, img.arg))
      [] OTHER -> w

\* Engine::create_image: the image and its memory, then the view; when the
\* view cannot be created the image is released again.
create_image(w, img, how) ==
    CASE how = "ok" -> Create(Create(w, R(img.image, img.arg)), R(img.view, img.arg))
      [] how = "view_fails" -> Destroy(Create(w, R(img.image, img.arg)), R(img.image, img.arg))
      [] OTHER -> w

ImageOf(k) == IF k = "render_target" THEN RenderTarget ELSE DepthTarget
IsImageStep(st) == st.obj.kind \in {"render_target", "depth_target"}

\* (variant: the step's closure is not queued)
RunStep_NoClosure(w, st) ==
    IF st.obj.kind = "init_swapchain" THEN init_swapchain(w, TRUE)
    ELSE CASE IsImageStep(st) -> create_image(w, ImageOf(st.obj.kind), "ok")
           [] st.obj.kind = "instance" ->
                  [Create(Create(w, st.obj), R("debug_messenger", 0))
                      EXCEPT !.queue = Append(@, st.obj)]
           [] st.obj.kind = "imgui" -> Create(w, R("imgui_backend", 0))
           [] st.creates -> Create(w, st.obj)
           [] OTHER -> w

\* One successful step of an init sequence.
RunStep(w, st) ==
    IF st.obj.kind = "init_swapchain" THEN init_swapchain(w, TRUE)
    ELSE LET w1 == CASE IsImageStep(st) -> create_image(w, ImageOf(st.obj.kind), "ok")
                     [] st.obj.kind = "instance" ->
                            Create(Create(w, st.obj), R("debug_messenger", 0))
                     [] st.obj.kind = "imgui" -> Create(w, R("imgui_backend", 0))
                     [] st.creates -> Create(w, st.obj)
                     [] OTHER -> w
         IN  IF st.adds THEN [w1 EXCEPT !.queue = Append(@, st.obj)] ELSE w1

\* The step that fails: how says which part of it fails.
FailStep(w, st, how) ==
    IF IsImageStep(st) THEN create_image(w, ImageOf(st.obj.kind), how) ELSE w
FailHows(st) == IF IsImageStep(st) THEN {"image_fails", "view_fails"} ELSE {"fails"}

RECURSIVE RunSteps(_, _, _, _)
\* Steps i .. n of an init sequence, all successful.
RunSteps(w, steps, i, n) ==
    IF i > n THEN w ELSE RunSteps(RunStep(w, steps[i]), steps, i + 1, n)

\* failAt = 0: no step fails; otherwise the steps before failAt succeed.
Succeeded(steps, failAt) == IF failAt = 0 THEN Len(steps) ELSE failAt - 1
FailPoints(steps) == {0} \cup {i \in 1 .. Len(steps) : steps[i].failable}


\* An init sequence that fails at step failAt (0: nowhere), in the way how.
RunInit(w, steps, failAt, how) ==
    LET w1 == RunSteps(w, steps, 1, Succeeded(steps, failAt))
    IN  IF failAt = 0 THEN w1 ELSE FailStep(w1, steps[failAt], how)

\* The steps of ForwardPass::init.
ForwardInitSteps ==
    << Step("render_target", 0, TRUE, TRUE, TRUE),
       Step("depth_target", 0, TRUE, TRUE, TRUE),
       Step("forward.set_layout", 0, TRUE, TRUE, TRUE),
       Step("forward.pipeline_layout", 0, TRUE, TRUE, TRUE),
       Step("forward.vertex_shader", 0, TRUE, TRUE, TRUE),
       Step("forward.fragment_shader", 0, TRUE, TRUE, TRUE),
       Step("forward.pipeline", 0, TRUE, TRUE, TRUE) >>

\* The steps of ImGuiPass::init: the descriptor pool can fail; the backend is
\* then initialised and one closure tears both down.
ImGuiInitSteps ==
    << Step("imgui_descriptor_pool", 0, TRUE, TRUE, FALSE),
       Step("imgui", 0, FALSE, TRUE, TRUE) >>

SetWorld(w) ==
    /\ alive' = w.alive
    /\ misuse' = w.misuse
    /\ destroyLog' = w.log
    /\ m_swapchain' = w.m_swapchain
    /\ nextSc' = w.nextSc
    /\ scene' = w.scene

(* ------------------------------- Init ---------------------------------- *)
\* The state after App's constructor: nothing is created yet.
Init ==
    /\ pc = "main"
    /\ alive = {} /\ misuse = {} /\ destroyLog = <<>>
    /\ m_deletion_queue = <<>>
    /\ m_swapchain = [generation |-> 0, swapchain |-> 0, image_views |-> 0]
    /\ nextSc = 1
    /\ m_frame_idx = 0
    /\ fence = [s \in Slots |-> FALSE]
    /\ cmd = [s \in Slots |-> "none"]
    /\ recorded = [s \in Slots |-> <<>>]
    /\ frameDq = [s \in Slots |-> <<>>]
    /\ inflight = {}
    /\ immFence = FALSE /\ immCmd = "none" /\ immInflight = 0
    /\ immTrace = <<>> /\ immCaller = "none" /\ immResult = TRUE
    /\ appDq = <<>> /\ forwardDq = <<>> /\ imguiDq = <<>>
    /\ m_disable_render = FALSE
    /\ scene = [meshes |-> <<>>, materials |-> <<>>]
    /\ load = [nMat |-> 0, nMesh |-> 0, mat |-> 0, mesh |-> 0]
    /\ refreshCaller = "none"
    /\ refreshEntry = [generation |-> 0, swapchain |-> 0, queued |-> 0]
    /\ frameNo = 0
    /\ inflightFrame = [s \in Slots |-> 0]
    /\ completedFrames = {}
    /\ lastAcquire = "none" /\ lastPresent = "none"
    /\ refreshCalls = 0 /\ lastRefresh = "none"
    /\ resizes = 0
    /\ exitWhy = "none"
    /\ exit_status = -1
    /\ dtorPending = 0
    /\ tq = <<>> /\ tqBefore = <<>> /\ tlog = <<>> /\ tflushes = 0
    /\ mpc = "idle" /\ vertices = <<>> /\ indices = <<>>
    /\ transfer_buffer = <<>> /\ vertex_buffer = <<>> /\ index_buffer = <<>>
    /\ copies = <<>>
    /\ spc = "wait_fence" /\ sidx = 0 /\ sframe = 1
    /\ render_semaphore = [s \in Slots |-> "unsignaled"]
    /\ present_semaphore = [s \in Slots |-> "unsignaled"]
    /\ sfence = [s \in Slots |-> TRUE]
    /\ acquired = [f \in SyncFrames |-> "none"]
    /\ batch = [s \in Slots |-> NoBatch]
    /\ finished = {}
    /\ present_request = [f \in SyncFrames |-> "none"]
    /\ lpc = "idle" /\ event_queue = <<>> /\ loop_disable_render = FALSE
    /\ loop_idx = 0 /\ loop_inflight = {}
    /\ polls = 0 /\ polled = 0 /\ rendered = 0
    /\ last_event = "none" /\ loop_exit = "none"

(* -------------------------------- main --------------------------------- *)
\* main up to the construction of the App: SDL_Init and SDL_CreateWindow;
\* if either fails main logs an error and returns 1.
MainStart ==
    /\ pc = "main"
    /\ \E sdl_ok \in BOOLEAN, window_ok \in BOOLEAN :
         IF sdl_ok /\ window_ok
         THEN pc' = "engine_init" /\ UNCHANGED exit_status
         ELSE pc' = "exited" /\ exit_status' = 1
    /\ UNCHANGED <<worldVars, queueVars, frameVars, immVars, m_disable_render, load,
                   refreshVars, resizes, exitWhy, dtorPending, dqVars, meshVars, syncVars, loopVars>>

\* main after the App is destroyed, whether init failed or run returned:
\* SDL_DestroyWindow and return 0 (pc stays "done": the App is gone).
MainReturn ==
    /\ pc = "done"
    /\ exit_status = -1
    /\ exit_status' = 0
    /\ UNCHANGED <<pc, worldVars, queueVars, frameVars, immVars, m_disable_render, load,
                   refreshVars, resizes, exitWhy, dtorPending, dqVars, meshVars, syncVars, loopVars>>

(* ------------------------------ App::init ------------------------------ *)
\* Engine::init, called first by App::init.  A failure makes App::init return
\* false, and main then destroys the App.
EngineInit ==
    /\ pc = "engine_init"
    /\ \E failAt \in FailPoints(EngineInitSteps) :
         LET w == RunInit(World(m_deletion_queue), EngineInitSteps, failAt, "fails")
             made(k, s) == R(k, s) \in w.alive
         IN  /\ SetWorld(w)
             /\ m_deletion_queue' = w.queue
             \* frame fences are created signaled, the immediate fence is not
             /\ fence' = [s \in Slots |-> made("frame.fence", s)]
             /\ cmd' = [s \in Slots |->
                          IF made("frame.cmd_buffer", s) THEN "initial" ELSE "none"]
             /\ immCmd' = IF made("imm.cmd_buffer", 0) THEN "initial" ELSE "none"
             /\ pc' = IF failAt = 0 THEN "forward_init" ELSE "app_dtor"
    /\ UNCHANGED <<appDq, forwardDq, imguiDq, m_frame_idx, recorded, frameDq, inflight,
                   frameNo, inflightFrame, completedFrames, lastAcquire, lastPresent,
                   immFence, immInflight, immTrace, immCaller, immResult,
                   appVars, dqVars, meshVars, syncVars, loopVars>>

\* ForwardPass::init.
ForwardPassInit ==
    /\ pc = "forward_init"
    /\ \E failAt \in FailPoints(ForwardInitSteps) :
       \E how \in (IF failAt = 0 THEN {"ok"} ELSE FailHows(ForwardInitSteps[failAt])) :
         LET w == RunInit(World(forwardDq), ForwardInitSteps, failAt, how)
         IN  /\ SetWorld(w)
             /\ forwardDq' = w.queue
             /\ pc' = IF failAt = 0 THEN "imgui_init" ELSE "app_dtor"
    /\ UNCHANGED <<m_deletion_queue, appDq, imguiDq, frameVars, immVars, appVars, dqVars, meshVars, syncVars, loopVars>>

\* ImGuiPass::init.
ImGuiPassInit ==
    /\ pc = "imgui_init"
    /\ \E failAt \in FailPoints(ImGuiInitSteps) :
         LET w == RunInit(World(imguiDq), ImGuiInitSteps, failAt, "fails")
         IN  /\ SetWorld(w)
             /\ imguiDq' = w.queue
             /\ pc' = IF failAt = 0 THEN "sampler_init" ELSE "app_dtor"
    /\ UNCHANGED <<m_deletion_queue, appDq, forwardDq, frameVars, immVars, appVars, dqVars, meshVars, syncVars, loopVars>>

\* App::init creating the default sampler.
SamplerInit ==
    /\ pc = "sampler_init"
    /\ \E ok \in BOOLEAN :
         LET w == IF ok THEN RunStep(World(appDq), Step("sampler", 0, TRUE, TRUE, TRUE))
                  ELSE World(appDq)
         IN  /\ SetWorld(w)
             /\ appDq' = w.queue
             /\ pc' = IF ok THEN "load_scene" ELSE "app_dtor"
    /\ UNCHANGED <<m_deletion_queue, forwardDq, imguiDq, frameVars, immVars, appVars, dqVars, meshVars, syncVars, loopVars>>

(* --------------------- App::create_scene_from_file --------------------- *)
\* A failed load: create_scene_from_file calls destroy_scene before it returns
\* false, and App::init calls destroy_scene again.
SceneLoadFails(w) == destroy_scene(destroy_scene(w))

\* The importer reads the file; the scene has some materials and meshes.
SceneBegin ==
    /\ pc = "load_scene"
    /\ \/ \* the file cannot be read: only App::init calls destroy_scene
          /\ SetWorld(destroy_scene(World(<<>>)))
          /\ pc' = "app_dtor"
          /\ UNCHANGED load
       \/ /\ \E nm \in 0 .. MaxMaterials, nv \in 0 .. MaxMeshes :
                load' = [nMat |-> nm, nMesh |-> nv, mat |-> 0, mesh |-> 0]
          /\ pc' = "scene_next"
          /\ UNCHANGED worldVars
    /\ UNCHANGED <<queueVars, frameVars, immVars, m_disable_render, refreshVars, resizes,
                   exitWhy, dtorPending, exit_status, dqVars, meshVars, syncVars, loopVars>>

\* Engine::create_image_from_file up to the call of immediate_submit: load
\* the pixels, create the image, create the staging buffer; the image is
\* destroyed again when the staging buffer cannot be allocated.
create_image_from_file_alloc(w, i, how) ==
    LET img == MaterialImage(i)
    IN  CASE how = "ok" -> Create(create_image(w, img, "ok"), R("image.staging", i))
          [] how = "load_fails" -> w
          [] how = "buffer_fails" -> destroy_image(create_image(w, img, "ok"), img)
          [] OTHER -> create_image(w, img, how)

\* (variant: a failed upload leaves the staging buffer allocated)
create_image_from_file_finish_LeakStaging(w, i, ok) ==
    IF ok THEN Destroy(w, R("image.staging", i))
    ELSE destroy_image(w, MaterialImage(i))

\* Engine::create_image_from_file once immediate_submit has returned ok: a
\* failed upload destroys the image and the staging buffer, a successful one
\* the staging buffer.
create_image_from_file_finish(w, i, ok) ==
    IF ok THEN Destroy(w, R("image.staging", i))
    ELSE Destroy(destroy_image(w, MaterialImage(i)), R("image.staging", i))

\* create_material_from_file -> Engine::create_image_from_file up to the call
\* of immediate_submit.
MaterialBegin ==
    /\ pc = "scene_next"
    /\ load.mat < load.nMat
    /\ LET i == load.mat + 1
       IN  \E how \in {"ok", "load_fails", "image_fails", "view_fails", "buffer_fails"} :
             /\ LET w == create_image_from_file_alloc(World(<<>>), i, how)
                IN  SetWorld(IF how = "ok" THEN w ELSE SceneLoadFails(w))
             /\ pc' = IF how = "ok" THEN "imm_reset_fence" ELSE "app_dtor"
             /\ immCaller' = IF how = "ok" THEN "image" ELSE immCaller
             /\ immTrace' = IF how = "ok" THEN <<>> ELSE immTrace
    /\ UNCHANGED <<queueVars, frameVars, immFence, immCmd, immInflight, immResult,
                   appVars, dqVars, meshVars, syncVars, loopVars>>

\* create_image_from_file after immediate_submit returned, then the rest of
\* create_material_from_file (the descriptor set) and the emplace_back.
MaterialFinish ==
    /\ pc = "image_after_submit"
    /\ LET i == load.mat + 1
           img == MaterialImage(i)
           w1 == create_image_from_file_finish(World(<<>>), i, immResult)
       IN  IF ~immResult
           THEN /\ SetWorld(SceneLoadFails(w1))
                /\ pc' = "app_dtor"
                /\ UNCHANGED load
           ELSE \E setOk \in BOOLEAN :
                      IF setOk
                      THEN /\ SetWorld([w1 EXCEPT !.scene.materials = Append(@, i)])
                           /\ load' = [load EXCEPT !.mat = i]
                           /\ pc' = "scene_next"
                      ELSE /\ SetWorld(SceneLoadFails(destroy_image(w1, img)))
                           /\ pc' = "app_dtor"
                           /\ UNCHANGED load
    /\ UNCHANGED <<queueVars, frameVars, immVars, m_disable_render, refreshVars, resizes,
                   exitWhy, dtorPending, exit_status, dqVars, meshVars, syncVars, loopVars>>

\* (variant: a failed index buffer leaves the vertex buffer allocated)
create_mesh_alloc_NoUnwind(w, i, how) ==
    LET st == R("mesh.staging", i)
        vb == R("mesh.vertex_buffer", i)
        ib == R("mesh.index_buffer", i)
    IN  CASE how = "ok" -> Create(Create(Create(w, st), vb), ib)
          [] how = "staging_fails" -> w
          [] how = "vertex_fails" -> Destroy(Create(w, st), st)
          [] OTHER -> Destroy(Create(Create(w, st), vb), st)

\* App::create_mesh up to the call of immediate_submit: the staging buffer,
\* the vertex buffer, the index buffer, each released again if a later one fails.
create_mesh_alloc(w, i, how) ==
    LET st == R("mesh.staging", i)
        vb == R("mesh.vertex_buffer", i)
        ib == R("mesh.index_buffer", i)
    IN  CASE how = "ok" -> Create(Create(Create(w, st), vb), ib)
          [] how = "staging_fails" -> w
          [] how = "vertex_fails" -> Destroy(Create(w, st), st)
          [] OTHER -> Destroy(Destroy(Create(Create(w, st), vb), st), vb)

\* App::create_mesh once immediate_submit has returned ok: a failed copy
\* releases the three buffers, a successful one the staging buffer.
create_mesh_finish(w, i, ok) ==
    LET st == R("mesh.staging", i)
        vb == R("mesh.vertex_buffer", i)
        ib == R("mesh.index_buffer", i)
    IN  IF ok THEN Destroy(w, st) ELSE Destroy(Destroy(Destroy(w, st), vb), ib)

MeshBegin ==
    /\ pc = "scene_next"
    /\ load.mat = load.nMat
    /\ load.mesh < load.nMesh
    /\ LET i == load.mesh + 1
       IN  \E how \in {"ok", "staging_fails", "vertex_fails", "index_fails"} :
             /\ LET w == create_mesh_alloc(World(<<>>), i, how)
                IN  SetWorld(IF how = "ok" THEN w ELSE SceneLoadFails(w))
             /\ pc' = IF how = "ok" THEN "imm_reset_fence" ELSE "app_dtor"
             /\ immCaller' = IF how = "ok" THEN "mesh" ELSE immCaller
             /\ immTrace' = IF how = "ok" THEN <<>> ELSE immTrace
    /\ UNCHANGED <<queueVars, frameVars, immFence, immCmd, immInflight, immResult,
                   appVars, dqVars, meshVars, syncVars, loopVars>>

\* (variant: the result of immediate_submit is ignored)
MeshFinish_IgnoresFailure ==
    /\ pc = "mesh_after_submit"
    /\ LET i == load.mesh + 1
       IN  /\ SetWorld([Destroy(World(<<>>), R("mesh.staging", i))
                           EXCEPT !.scene.meshes = Append(@, i)])
           /\ load' = [load EXCEPT !.mesh = i]
           /\ pc' = "scene_next"
    /\ UNCHANGED <<queueVars, frameVars, immVars, m_disable_render, refreshVars, resizes,
                   exitWhy, dtorPending, exit_status, dqVars, meshVars, syncVars, loopVars>>

\* create_mesh after immediate_submit returned, and the emplace_back.
MeshFinish ==
    /\ pc = "mesh_after_submit"
    /\ LET i == load.mesh + 1
           w == create_mesh_finish(World(<<>>), i, immResult)
       IN  IF ~immResult
           THEN /\ SetWorld(SceneLoadFails(w))
                /\ pc' = "app_dtor"
                /\ UNCHANGED load
           ELSE /\ SetWorld([w EXCEPT !.scene.meshes = Append(@, i)])
                /\ load' = [load EXCEPT !.mesh = i]
                /\ pc' = "scene_next"
    /\ UNCHANGED <<queueVars, frameVars, immVars, m_disable_render, refreshVars, resizes,
                   exitWhy, dtorPending, exit_status, dqVars, meshVars, syncVars, loopVars>>

\* Every material and mesh is loaded: create_scene_from_file returns true,
\* App::init queues destroy_scene and returns true, and main calls App::run.
SceneDone ==
    /\ pc = "scene_next"
    /\ load.mat = load.nMat
    /\ load.mesh = load.nMesh
    /\ appDq' = Append(appDq, R("destroy_scene", 0))
    /\ pc' = "run_poll"
    /\ UNCHANGED <<worldVars, m_deletion_queue, forwardDq, imguiDq, frameVars, immVars,
                   appVars, dqVars, meshVars, syncVars, loopVars>>

(* ----------------------- Engine::immediate_submit ---------------------- *)
\* A native call, with the semaphores a submit waits on and signals.
Call(name, waits, signals) == [call |-> name, waits |-> waits, signals |-> signals]

\* immediate_submit returns r to its caller.
ImmReturn(r) ==
    /\ immResult' = r
    /\ pc' = IF immCaller = "image" THEN "image_after_submit" ELSE "mesh_after_submit"

\* A step of immediate_submit that VKERR guards: it succeeds and control moves
\* to next, or it fails and immediate_submit returns false.
ImmStep(at, call, next, ok) ==
    /\ pc = at
    /\ IF ok
       THEN /\ immTrace' = Append(immTrace, call)
            /\ pc' = next
            /\ UNCHANGED immResult
       ELSE /\ ImmReturn(FALSE)
            /\ UNCHANGED immTrace

ImmResetFence ==
    /\ \E ok \in BOOLEAN :
         /\ ImmStep("imm_reset_fence", Call("vkResetFences", 0, 0), "imm_reset_cmd", ok)
         /\ immFence' = IF ok THEN FALSE ELSE immFence
    /\ UNCHANGED <<worldVars, queueVars, frameVars, immCmd, immInflight, immCaller,
                   appVars, dqVars, meshVars, syncVars, loopVars>>

ImmResetCmd ==
    /\ \E ok \in BOOLEAN :
         /\ ImmStep("imm_reset_cmd", Call("vkResetCommandBuffer", 0, 0), "imm_begin", ok)
         /\ immCmd' = IF ok THEN "initial" ELSE immCmd
    /\ UNCHANGED <<worldVars, queueVars, frameVars, immFence, immInflight, immCaller,
                   appVars, dqVars, meshVars, syncVars, loopVars>>

ImmBegin ==
    /\ \E ok \in BOOLEAN :
         /\ ImmStep("imm_begin", Call("vkBeginCommandBuffer", 0, 0), "imm_record", ok)
         /\ immCmd' = IF ok THEN "recording" ELSE immCmd
    /\ UNCHANGED <<worldVars, queueVars, frameVars, immFence, immInflight, immCaller,
                   appVars, dqVars, meshVars, syncVars, loopVars>>

\* f(m_immediate_commands.cmd_buffer): the caller records its commands.
ImmRecord ==
    /\ ImmStep("imm_record", Call("f", 0, 0), "imm_end", TRUE)
    /\ UNCHANGED <<worldVars, queueVars, frameVars, immFence, immCmd, immInflight,
                   immCaller, appVars, dqVars, meshVars, syncVars, loopVars>>

ImmEnd ==
    /\ \E ok \in BOOLEAN :
         /\ ImmStep("imm_end", Call("vkEndCommandBuffer", 0, 0), "imm_submit", ok)
         /\ immCmd' = IF ok THEN "executable" ELSE immCmd
    /\ UNCHANGED <<worldVars, queueVars, frameVars, immFence, immInflight, immCaller,
                   appVars, dqVars, meshVars, syncVars, loopVars>>

\* vkQueueSubmit2 with no wait and no signal semaphore, and the fence.
ImmSubmit ==
    /\ \E ok \in BOOLEAN :
         /\ ImmStep("imm_submit", Call("vkQueueSubmit2", 0, 0), "imm_wait", ok)
         /\ immInflight' = IF ok THEN immInflight + 1 ELSE immInflight
         /\ immCmd' = IF ok THEN "pending" ELSE immCmd
    /\ UNCHANGED <<worldVars, queueVars, frameVars, immFence, immCaller, appVars, dqVars, meshVars, syncVars, loopVars>>

\* (variant: immediate_submit does not wait for its fence)
ImmFenceWaitSkipped == TRUE

\* vkWaitForFences on the immediate fence returns VK_SUCCESS.
ImmFenceWaitReturns == immFence

\* The wait returns once the fence is signaled, and immediate_submit returns
\* true; or the wait fails and immediate_submit returns false.
ImmWait ==
    /\ pc = "imm_wait"
    /\ \/ /\ ImmFenceWaitReturns
          /\ immTrace' = Append(immTrace, Call("vkWaitForFences", 0, 0))
          /\ ImmReturn(TRUE)
       \/ /\ ImmReturn(FALSE)
          /\ UNCHANGED immTrace
    /\ UNCHANGED <<worldVars, queueVars, frameVars, immFence, immCmd, immInflight,
                   immCaller, appVars, dqVars, meshVars, syncVars, loopVars>>

\* The GPU finishes the immediate submission and signals its fence.
GpuCompleteImm ==
    /\ immInflight > 0
    /\ immInflight' = immInflight - 1
    /\ immFence' = TRUE
    /\ immCmd' = "executable"
    /\ UNCHANGED <<pc, worldVars, queueVars, frameVars, immTrace, immCaller, immResult,
                   appVars, dqVars, meshVars, syncVars, loopVars>>

(* ------------------------------- the GPU ------------------------------- *)
\* The GPU finishes the submission of slot s and signals the slot's fence.
GpuComplete(s) ==
    /\ s \in inflight
    /\ inflight' = inflight \ {s}
    /\ fence' = [fence EXCEPT ![s] = TRUE]
    /\ cmd' = [cmd EXCEPT ![s] = IF @ = "pending" THEN "executable" ELSE @]
    /\ completedFrames' = completedFrames \cup {inflightFrame[s]}
    /\ UNCHANGED <<pc, worldVars, queueVars, m_frame_idx, recorded, frameDq, frameNo,
                   inflightFrame, lastAcquire, lastPresent, immVars, appVars, dqVars, meshVars, syncVars, loopVars>>

\* vkDeviceWaitIdle returns: no submission is left unfinished.
DeviceIdle == inflight = {} /\ immInflight = 0

(* ----------------------- Engine::refresh_swapchain --------------------- *)
\* refresh_swapchain is entered from `from`.
CallRefresh(from) ==
    /\ pc' = "refresh_wait"
    /\ refreshCaller' = from
    /\ refreshEntry' = [generation |-> m_swapchain.generation,
                        swapchain |-> m_swapchain.swapchain,
                        queued |-> Len(m_deletion_queue)]
    /\ refreshCalls' = refreshCalls + 1
    /\ lastRefresh' = "running"

\* (variant: the flag is not looked at)
AfterEvents_IgnoresFlag(disabled) ==
    pc' = "sf_wait" /\ frameNo' = frameNo + 1

\* The top of render_frame, or the next iteration when rendering is disabled
\* (App::run, after the events).
AfterEvents(disabled) ==
    IF disabled
    THEN pc' = "run_poll" /\ UNCHANGED frameNo
    ELSE pc' = "sf_wait" /\ frameNo' = frameNo + 1

\* (variant: the loop goes on to its next iteration)
FrameFails_Retries ==
    /\ pc' = "run_poll"
    /\ UNCHANGED exitWhy

\* render_frame returns false: App::run logs and returns.
FrameFails ==
    /\ pc' = "app_dtor"
    /\ exitWhy' = "frame_failed"

\* (variant: refresh_swapchain does not wait for the device)
RefreshWaitIdle_NoWait ==
    /\ pc = "refresh_wait"
    /\ pc' = "refresh_rebuild"
    /\ UNCHANGED <<worldVars, queueVars, frameVars, immVars, appVars, dqVars, meshVars, syncVars, loopVars>>

\* vkDeviceWaitIdle at the top of refresh_swapchain.
RefreshWaitIdle ==
    /\ pc = "refresh_wait"
    /\ DeviceIdle
    /\ pc' = "refresh_rebuild"
    /\ UNCHANGED <<worldVars, queueVars, frameVars, immVars, appVars, dqVars, meshVars, syncVars, loopVars>>

\* (variant: the generation is not incremented)
refresh_rebuild_SameGeneration(w, ok) ==
    LET w1 == Destroy(w, R("image_views", w.m_swapchain.image_views))
        w2 == Destroy(w1, R("swapchain", w.m_swapchain.swapchain))
    IN  init_swapchain(w2, ok)

\* (variant: the image views are not destroyed)
refresh_rebuild_LeakViews(w, ok) ==
    LET w2 == Destroy(w, R("swapchain", w.m_swapchain.swapchain))
        w3 == [w2 EXCEPT !.m_swapchain.generation = @ + 1]
    IN  init_swapchain(w3, ok)

\* (variant: the generation is incremented only when the new swapchain is built)
refresh_rebuild_CountsSuccesses(w, ok) ==
    LET w1 == Destroy(w, R("image_views", w.m_swapchain.image_views))
        w2 == Destroy(w1, R("swapchain", w.m_swapchain.swapchain))
        w3 == [w2 EXCEPT !.m_swapchain.generation = IF ok THEN @ + 1 ELSE @]
    IN  init_swapchain(w3, ok)

\* The rest of refresh_swapchain: destroy the views and the handle, add one to
\* the generation, call init_swapchain, and return its result to the caller.
refresh_rebuild(w, ok) ==
    LET w1 == Destroy(w, R("image_views", w.m_swapchain.image_views))
        w2 == Destroy(w1, R("swapchain", w.m_swapchain.swapchain))
        w3 == [w2 EXCEPT !.m_swapchain.generation = @ + 1]
    IN  init_swapchain(w3, ok)

\* (variant: finish_frame fails whenever the present did not succeed)
RefreshReturns_PresentFatal(ok) ==
    IF refreshCaller = "run"
    THEN IF ok
         THEN AfterEvents(m_disable_render) /\ UNCHANGED exitWhy
         ELSE /\ pc' = "app_dtor"
              /\ exitWhy' = "resize_failed"
              /\ UNCHANGED frameNo
    ELSE FrameFails /\ UNCHANGED frameNo

\* (variant: App::run goes on after a failed resize)
RefreshReturns_ResizeFailureIgnored(ok) ==
    IF refreshCaller = "run"
    THEN IF ok
         THEN AfterEvents(m_disable_render) /\ UNCHANGED exitWhy
         ELSE AfterEvents(m_disable_render) /\ UNCHANGED exitWhy
    ELSE /\ IF ok
            THEN pc' = "ff_advance" /\ UNCHANGED exitWhy
            ELSE FrameFails
         /\ UNCHANGED frameNo

\* refresh_swapchain returns ok.  In App::run a failure breaks the loop and
\* otherwise the iteration goes on; in finish_frame a failure returns false
\* and otherwise the slot index is advanced.
RefreshReturns(ok) ==
    IF refreshCaller = "run"
    THEN IF ok
         THEN AfterEvents(m_disable_render) /\ UNCHANGED exitWhy
         ELSE /\ pc' = "app_dtor"
              /\ exitWhy' = "resize_failed"
              /\ UNCHANGED frameNo
    ELSE /\ IF ok
            THEN pc' = "ff_advance" /\ UNCHANGED exitWhy
            ELSE FrameFails
         /\ UNCHANGED frameNo

RefreshRebuild ==
    /\ pc = "refresh_rebuild"
    /\ \E ok \in BOOLEAN :
         LET w == refresh_rebuild(World(m_deletion_queue), ok)
         IN  /\ SetWorld(w)
             /\ m_deletion_queue' = w.queue
             /\ lastRefresh' = IF ok THEN "ok" ELSE "failed"
             /\ RefreshReturns(ok)
    /\ UNCHANGED <<appDq, forwardDq, imguiDq, m_frame_idx, fence, cmd, recorded, frameDq, inflight,
                   inflightFrame, completedFrames, lastAcquire, lastPresent, immVars,
                   m_disable_render, load, refreshCaller, refreshEntry, refreshCalls,
                   resizes, dtorPending, exit_status, dqVars, meshVars, syncVars, loopVars>>

(* ------------------------------- App::run ------------------------------ *)
Events == {"none", "quit", "resize", "minimized", "restored", "other"}

\* One iteration of the loop up to render_frame: SDL_PollEvent and the event.
RunPoll ==
    /\ pc = "run_poll"
    /\ \E e \in Events :
         /\ frameNo >= MaxFrames => e = "quit"
         /\ e = "resize" => nextSc <= MaxSwapchains
         /\ CASE e = "quit" ->
                   /\ pc' = "app_dtor"
                   /\ exitWhy' = "quit"
                   /\ UNCHANGED <<m_disable_render, frameNo, refreshVars, resizes>>
              [] e = "resize" ->
                   /\ CallRefresh("run")
                   /\ resizes' = resizes + 1
                   /\ UNCHANGED <<m_disable_render, frameNo, exitWhy>>
              [] OTHER ->
                   /\ m_disable_render' = CASE e = "minimized" -> TRUE
                                            [] e = "restored" -> FALSE
                                            [] OTHER -> m_disable_render
                   /\ AfterEvents(m_disable_render')
                   /\ UNCHANGED <<exitWhy, refreshVars, resizes>>
    /\ UNCHANGED <<worldVars, queueVars, m_frame_idx, fence, cmd, recorded, frameDq, inflight,
                   inflightFrame, completedFrames, lastAcquire, lastPresent, immVars,
                   load, dtorPending, exit_status, dqVars, meshVars, syncVars, loopVars>>

(* -------------------------- Engine::start_frame ------------------------ *)
\* (variant: start_frame does not wait for the slot's fence)
FrameFenceWaitSkipped(s) == TRUE

\* vkWaitForFences on the fence of slot s returns VK_SUCCESS.
FrameFenceWaitReturns(s) == fence[s]

\* (variant: after a failed call the loop goes on with its next iteration)
FrameStep_FailureRetries(at, next, ok) ==
    /\ pc = at
    /\ IF ok THEN pc' = next ELSE pc' = "run_poll"
    /\ UNCHANGED exitWhy

\* A step of start_frame or finish_frame that VKERR guards.
FrameStep(at, next, ok) ==
    /\ pc = at
    /\ IF ok THEN pc' = next /\ UNCHANGED exitWhy ELSE FrameFails

\* (variant: the queue is flushed without the wait for the fence)
StartFrameWait_FlushFirst ==
    /\ pc = "sf_wait"
    /\ pc' = "sf_flush"
    /\ UNCHANGED <<worldVars, queueVars, frameVars, immVars, appVars, dqVars, meshVars, syncVars, loopVars>>

StartFrameWait ==
    /\ pc = "sf_wait"
    /\ \/ /\ FrameFenceWaitReturns(m_frame_idx)
          /\ pc' = "sf_reset_fence"
          /\ UNCHANGED exitWhy
       \/ FrameFails
    /\ UNCHANGED <<worldVars, queueVars, frameVars, immVars, m_disable_render, load,
                   refreshVars, resizes, dtorPending, exit_status, dqVars, meshVars, syncVars, loopVars>>

\* (variant: the fence is left signaled)
StartFrameResetFence_NoReset ==
    /\ \E ok \in BOOLEAN : FrameStep("sf_reset_fence", "sf_flush", ok)
    /\ fence' = fence
    /\ UNCHANGED <<worldVars, queueVars, m_frame_idx, cmd, recorded, frameDq, inflight, frameNo,
                   inflightFrame, completedFrames, lastAcquire, lastPresent, immVars,
                   m_disable_render, load, refreshVars, resizes, dtorPending, exit_status, dqVars, meshVars, syncVars, loopVars>>

\* vkResetFences on the slot's fence.
StartFrameResetFence ==
    /\ \E ok \in BOOLEAN :
         /\ FrameStep("sf_reset_fence", "sf_flush", ok)
         /\ fence' = IF ok THEN [fence EXCEPT ![m_frame_idx] = FALSE] ELSE fence
    /\ UNCHANGED <<worldVars, queueVars, m_frame_idx, cmd, recorded, frameDq, inflight, frameNo,
                   inflightFrame, completedFrames, lastAcquire, lastPresent, immVars,
                   m_disable_render, load, refreshVars, resizes, dtorPending, exit_status, dqVars, meshVars, syncVars, loopVars>>

\* frame.deletion_queue.delete_all()
StartFrameFlush ==
    /\ pc = "sf_flush"
    /\ SetWorld(delete_all(World(<<>>), frameDq[m_frame_idx]))
    /\ frameDq' = [frameDq EXCEPT ![m_frame_idx] = <<>>]
    /\ pc' = "sf_acquire"
    /\ UNCHANGED <<queueVars, m_frame_idx, fence, cmd, recorded, inflight, frameNo, inflightFrame,
                   completedFrames, lastAcquire, lastPresent, immVars, appVars, dqVars, meshVars, syncVars, loopVars>>

AcquireResults == {"VK_SUCCESS", "VK_SUBOPTIMAL_KHR", "VK_ERROR_OUT_OF_DATE_KHR",
                   "VK_ERROR_DEVICE_LOST"}

\* vkAcquireNextImageKHR under VKERR: anything but VK_SUCCESS returns false.
StartFrameAcquire ==
    /\ \E res \in AcquireResults :
         /\ FrameStep("sf_acquire", "sf_reset_cmd", res = "VK_SUCCESS")
         /\ lastAcquire' = res
    /\ UNCHANGED <<worldVars, queueVars, m_frame_idx, fence, cmd, recorded, frameDq, inflight,
                   frameNo, inflightFrame, completedFrames, lastPresent, immVars,
                   m_disable_render, load, refreshVars, resizes, dtorPending, exit_status, dqVars, meshVars, syncVars, loopVars>>

StartFrameResetCmd ==
    /\ \E ok \in BOOLEAN :
         /\ FrameStep("sf_reset_cmd", "sf_begin", ok)
         /\ cmd' = IF ok THEN [cmd EXCEPT ![m_frame_idx] = "initial"] ELSE cmd
         /\ recorded' = IF ok THEN [recorded EXCEPT ![m_frame_idx] = <<>>] ELSE recorded
    /\ UNCHANGED <<worldVars, queueVars, m_frame_idx, fence, frameDq, inflight, frameNo,
                   inflightFrame, completedFrames, lastAcquire, lastPresent, immVars,
                   m_disable_render, load, refreshVars, resizes, dtorPending, exit_status, dqVars, meshVars, syncVars, loopVars>>

\* (variant: start_frame moves on to the next slot once recording has begun)
StartFrameBegin_NextSlot ==
    /\ \E ok \in BOOLEAN :
         /\ FrameStep("sf_begin", "record", ok)
         /\ cmd' = IF ok THEN [cmd EXCEPT ![m_frame_idx] = "recording"] ELSE cmd
         /\ m_frame_idx' = IF ok THEN (m_frame_idx + 1) % NUM_FRAMES_IN_FLIGHT
                           ELSE m_frame_idx
    /\ UNCHANGED <<worldVars, queueVars, fence, recorded, frameDq, inflight, frameNo,
                   inflightFrame, completedFrames, lastAcquire, lastPresent, immVars,
                   m_disable_render, load, refreshVars, resizes, dtorPending, exit_status, dqVars, meshVars, syncVars, loopVars>>

StartFrameBegin ==
    /\ \E ok \in BOOLEAN :
         /\ FrameStep("sf_begin", "record", ok)
         /\ cmd' = IF ok THEN [cmd EXCEPT ![m_frame_idx] = "recording"] ELSE cmd
    /\ UNCHANGED <<worldVars, queueVars, m_frame_idx, fence, recorded, frameDq, inflight, frameNo,
                   inflightFrame, completedFrames, lastAcquire, lastPresent, immVars,
                   m_disable_render, load, refreshVars, resizes, dtorPending, exit_status, dqVars, meshVars, syncVars, loopVars>>

(* --------------------------- recorded commands -------------------------- *)
RenderTargetImage == "m_render_target.image"
DepthTargetImage == "m_depth_target.image"
SwapchainImage == "swapchain.images[swapchain_image_idx]"

\* A barrier whose first scope holds the transfer stage only.
transition_image_SrcTransfer(image, src_layout, dst_layout) ==
    [op |-> "vkCmdPipelineBarrier2", image |-> image,
     srcStageMask |-> "TRANSFER", dstStageMask |-> "ALL_COMMANDS",
     oldLayout |-> src_layout, newLayout |-> dst_layout]

\* transition_image: one vkCmdPipelineBarrier2 with an image barrier from
\* src_layout to dst_layout.
transition_image(image, src_layout, dst_layout) ==
    [op |-> "vkCmdPipelineBarrier2", image |-> image,
     srcStageMask |-> "ALL_COMMANDS", dstStageMask |-> "ALL_COMMANDS",
     oldLayout |-> src_layout, newLayout |-> dst_layout]

\* vkCmdBeginRendering with one color attachment and the layout it declares.
BeginRendering(image, imageLayout) ==
    [op |-> "vkCmdBeginRendering", image |-> image, imageLayout |-> imageLayout]

\* vkCmdBeginRendering with one color attachment and a depth attachment, and
\* the layout each of them declares.
BeginRenderingDepth(image, imageLayout, depthImage, depthLayout) ==
    [op |-> "vkCmdBeginRendering", image |-> image, imageLayout |-> imageLayout,
     depthImage |-> depthImage, depthLayout |-> depthLayout]

\* vkCmdClearColorImage and the layout it is told the image is in.
ClearColorImage(image, imageLayout) ==
    [op |-> "vkCmdClearColorImage", image |-> image, imageLayout |-> imageLayout]

\* A command that names no layout of its own.
Cmd(op, image) == [op |-> op, image |-> image]

\* ForwardPass::render.
ForwardPass_render ==
    << transition_image(RenderTargetImage, "VK_IMAGE_LAYOUT_UNDEFINED",
                        "VK_IMAGE_LAYOUT_GENERAL"),
       transition_image(DepthTargetImage, "VK_IMAGE_LAYOUT_UNDEFINED",
                        "VK_IMAGE_LAYOUT_DEPTH_ATTACHMENT_OPTIMAL"),
       ClearColorImage(RenderTargetImage, "VK_IMAGE_LAYOUT_GENERAL"),
       BeginRenderingDepth(RenderTargetImage, "VK_IMAGE_LAYOUT_COLOR_ATTACHMENT_OPTIMAL",
                           DepthTargetImage, "VK_IMAGE_LAYOUT_DEPTH_ATTACHMENT_OPTIMAL"),
       Cmd("vkCmdDrawIndexed", RenderTargetImage),
       Cmd("vkCmdEndRendering", RenderTargetImage) >>

\* blit_image.
blit_image(src_image, dst_image) ==
    [op |-> "vkCmdBlitImage2", image |-> dst_image, src_image |-> src_image]

\* ImGuiPass::render.
ImGuiPass_render ==
    << BeginRendering(SwapchainImage, "VK_IMAGE_LAYOUT_COLOR_ATTACHMENT_OPTIMAL"),
       Cmd("ImGui_ImplVulkan_RenderDrawData", SwapchainImage),
       Cmd("vkCmdEndRendering", SwapchainImage) >>

\* (variant: the blit is recorded before the two transitions)
render_frame_commands_BlitFirst ==
    ForwardPass_render
    \o << blit_image(RenderTargetImage, SwapchainImage),
          transition_image(RenderTargetImage, "VK_IMAGE_LAYOUT_GENERAL",
                           "VK_IMAGE_LAYOUT_TRANSFER_SRC_OPTIMAL"),
          transition_image(SwapchainImage, "VK_IMAGE_LAYOUT_UNDEFINED",
                           "VK_IMAGE_LAYOUT_TRANSFER_DST_OPTIMAL") >>
    \o ImGuiPass_render
    \o << transition_image(SwapchainImage, "VK_IMAGE_LAYOUT_TRANSFER_DST_OPTIMAL",
                           "VK_IMAGE_LAYOUT_PRESENT_SRC_KHR") >>

\* Everything App::render_frame records between start_frame and finish_frame.
render_frame_commands ==
    ForwardPass_render
    \o << transition_image(RenderTargetImage, "VK_IMAGE_LAYOUT_GENERAL",
                           "VK_IMAGE_LAYOUT_TRANSFER_SRC_OPTIMAL"),
          transition_image(SwapchainImage, "VK_IMAGE_LAYOUT_UNDEFINED",
                           "VK_IMAGE_LAYOUT_TRANSFER_DST_OPTIMAL"),
          blit_image(RenderTargetImage, SwapchainImage) >>
    \o ImGuiPass_render
    \o << transition_image(SwapchainImage, "VK_IMAGE_LAYOUT_TRANSFER_DST_OPTIMAL",
                           "VK_IMAGE_LAYOUT_PRESENT_SRC_KHR") >>

\* App::render_frame between start_frame and finish_frame: the passes and the
\* transitions are recorded into the slot's command buffer.
RecordFrame ==
    /\ pc = "record"
    /\ recorded' = [recorded EXCEPT ![m_frame_idx] = @ \o render_frame_commands]
    /\ pc' = "ff_end"
    /\ UNCHANGED <<worldVars, queueVars, m_frame_idx, fence, cmd, frameDq, inflight,
                   frameNo, inflightFrame, completedFrames, lastAcquire, lastPresent,
                   immVars, appVars, dqVars, meshVars, syncVars, loopVars>>

(* ------------------------- Engine::finish_frame ------------------------ *)
\* (variant: the swapchain is refreshed before the command buffer is ended)
FinishFrameEnd_Refreshes ==
    /\ pc = "ff_end"
    /\ nextSc <= MaxSwapchains
    /\ CallRefresh("finish_frame")
    /\ UNCHANGED <<worldVars, queueVars, frameVars, immVars, m_disable_render, load, resizes,
                   exitWhy, dtorPending, exit_status, dqVars, meshVars, syncVars, loopVars>>

FinishFrameEnd ==
    /\ \E ok \in BOOLEAN :
         /\ FrameStep("ff_end", "ff_submit", ok)
         /\ cmd' = IF ok THEN [cmd EXCEPT ![m_frame_idx] = "executable"] ELSE cmd
    /\ UNCHANGED <<worldVars, queueVars, m_frame_idx, fence, recorded, frameDq, inflight, frameNo,
                   inflightFrame, completedFrames, lastAcquire, lastPresent, immVars,
                   m_disable_render, load, refreshVars, resizes, dtorPending, exit_status, dqVars, meshVars, syncVars, loopVars>>

\* vkQueueSubmit2 with the slot's fence.
FinishFrameSubmit ==
    /\ \E ok \in BOOLEAN :
         /\ FrameStep("ff_submit", "ff_present", ok)
         /\ inflight' = IF ok THEN inflight \cup {m_frame_idx} ELSE inflight
         /\ inflightFrame' = IF ok THEN [inflightFrame EXCEPT ![m_frame_idx] = frameNo]
                             ELSE inflightFrame
         /\ cmd' = IF ok THEN [cmd EXCEPT ![m_frame_idx] = "pending"] ELSE cmd
    /\ UNCHANGED <<worldVars, queueVars, m_frame_idx, fence, recorded, frameDq, frameNo,
                   completedFrames, lastAcquire, lastPresent, immVars,
                   m_disable_render, load, refreshVars, resizes, dtorPending, exit_status, dqVars, meshVars, syncVars, loopVars>>

PresentResults == {"VK_SUCCESS", "VK_SUBOPTIMAL_KHR", "VK_ERROR_OUT_OF_DATE_KHR",
                   "VK_ERROR_DEVICE_LOST"}

\* (variant: only an out-of-date result refreshes, an error fails the frame)
FinishFramePresent_OnlyOutOfDate ==
    /\ pc = "ff_present"
    /\ \E res \in PresentResults :
         /\ lastPresent' = res
         /\ CASE res = "VK_ERROR_OUT_OF_DATE_KHR" ->
                   /\ nextSc <= MaxSwapchains
                   /\ CallRefresh("finish_frame")
                   /\ UNCHANGED exitWhy
              [] res = "VK_ERROR_DEVICE_LOST" ->
                   /\ FrameFails
                   /\ UNCHANGED refreshVars
              [] OTHER ->
                   /\ pc' = "ff_advance"
                   /\ UNCHANGED <<refreshVars, exitWhy>>
    /\ UNCHANGED <<worldVars, queueVars, m_frame_idx, fence, cmd, recorded, frameDq, inflight,
                   frameNo, inflightFrame, completedFrames, lastAcquire, immVars,
                   m_disable_render, load, resizes, dtorPending, exit_status, dqVars, meshVars, syncVars, loopVars>>

\* vkQueuePresentKHR: anything but VK_SUCCESS calls refresh_swapchain.
FinishFramePresent ==
    /\ pc = "ff_present"
    /\ \E res \in PresentResults :
         /\ lastPresent' = res
         /\ IF res = "VK_SUCCESS"
            THEN /\ pc' = "ff_advance"
                 /\ UNCHANGED refreshVars
            ELSE /\ nextSc <= MaxSwapchains
                 /\ CallRefresh("finish_frame")
    /\ UNCHANGED <<worldVars, queueVars, m_frame_idx, fence, cmd, recorded, frameDq, inflight,
                   frameNo, inflightFrame, completedFrames, lastAcquire, immVars,
                   m_disable_render, load, resizes, exitWhy, dtorPending, exit_status, dqVars, meshVars, syncVars, loopVars>>

\* (variant: the index is not advanced)
FinishFrameAdvance_SameSlot ==
    /\ pc = "ff_advance"
    /\ m_frame_idx' = m_frame_idx
    /\ pc' = "run_poll"
    /\ UNCHANGED <<worldVars, queueVars, fence, cmd, recorded, frameDq, inflight, frameNo,
                   inflightFrame, completedFrames, lastAcquire, lastPresent, immVars,
                   appVars, dqVars, meshVars, syncVars, loopVars>>

\* The end of finish_frame: the next slot, and true is returned; render_frame
\* returns true and the loop goes on.
FinishFrameAdvance ==
    /\ pc = "ff_advance"
    /\ m_frame_idx' = (m_frame_idx + 1) % NUM_FRAMES_IN_FLIGHT
    /\ pc' = "run_poll"
    /\ UNCHANGED <<worldVars, queueVars, fence, cmd, recorded, frameDq, inflight, frameNo,
                   inflightFrame, completedFrames, lastAcquire, lastPresent, immVars,
                   appVars, dqVars, meshVars, syncVars, loopVars>>

(* ------------------------------ teardown ------------------------------- *)
\* (variant: the destructors do not wait for the device)
DtorWaitIdle_NoWait(at, next) ==
    /\ pc = at
    /\ IF R("device", 0) \in alive
       THEN pc' = next
       ELSE pc' \in {next, "crashed"}

\* vkDeviceWaitIdle in a destructor.  With a device it returns once the GPU is
\* idle.  When Engine::init failed before the device was created the handle is
\* VK_NULL_HANDLE and the call is undefined: it may crash or return.
DtorWaitIdle(at, next) ==
    /\ pc = at
    /\ IF R("device", 0) \in alive
       THEN DeviceIdle /\ pc' = next
       ELSE pc' \in {next, "crashed"}

\* main leaves the scope of `app`: App::~App is entered.
AppDtorBegin ==
    /\ pc = "app_dtor"
    /\ pc' = "app_dtor_wait"
    /\ dtorPending' = Cardinality(inflight) + immInflight
    /\ UNCHANGED <<worldVars, queueVars, frameVars, immVars, m_disable_render, load,
                   refreshVars, resizes, exitWhy, exit_status, dqVars, meshVars, syncVars, loopVars>>

\* App::~App: vkDeviceWaitIdle ...
AppDtorWait ==
    /\ DtorWaitIdle("app_dtor_wait", "app_dtor_flush")
    /\ UNCHANGED <<worldVars, queueVars, frameVars, immVars, appVars, dqVars, meshVars, syncVars, loopVars>>

\* ... and m_deletion_queue.delete_all().
AppDtorFlush ==
    /\ pc = "app_dtor_flush"
    /\ SetWorld(delete_all(World(<<>>), appDq))
    /\ appDq' = <<>>
    /\ pc' = "imgui_dtor"
    /\ UNCHANGED <<m_deletion_queue, forwardDq, imguiDq, frameVars, immVars, appVars, dqVars, meshVars, syncVars, loopVars>>

\* ImGuiPass::~ImGuiPass (members are destroyed in reverse declaration order).
ImGuiPassDtor ==
    /\ pc = "imgui_dtor"
    /\ SetWorld(delete_all(World(<<>>), imguiDq))
    /\ imguiDq' = <<>>
    /\ pc' = "forward_dtor"
    /\ UNCHANGED <<m_deletion_queue, appDq, forwardDq, frameVars, immVars, appVars, dqVars, meshVars, syncVars, loopVars>>

\* (variant: the pass keeps its resources)
ForwardPassDtor_KeepsResources ==
    /\ pc = "forward_dtor"
    /\ pc' = "engine_dtor"
    /\ UNCHANGED <<worldVars, queueVars, frameVars, immVars, appVars, dqVars, meshVars, syncVars, loopVars>>

\* ForwardPass::~ForwardPass.
ForwardPassDtor ==
    /\ pc = "forward_dtor"
    /\ SetWorld(delete_all(World(<<>>), forwardDq))
    /\ forwardDq' = <<>>
    /\ pc' = "engine_dtor"
    /\ UNCHANGED <<m_deletion_queue, appDq, imguiDq, frameVars, immVars, appVars, dqVars, meshVars, syncVars, loopVars>>

\* Engine::~Engine: vkDeviceWaitIdle ...
EngineDtorWait ==
    /\ DtorWaitIdle("engine_dtor", "engine_dtor_flush")
    /\ UNCHANGED <<worldVars, queueVars, frameVars, immVars, appVars, dqVars, meshVars, syncVars, loopVars>>

RECURSIVE FlushFrames(_, _)
\* for (auto &frame : m_frames) frame.deletion_queue.delete_all();
FlushFrames(w, s) ==
    IF s = NUM_FRAMES_IN_FLIGHT THEN w
    ELSE FlushFrames(delete_all(w, frameDq[s]), s + 1)

\* ... then every slot's queue, then m_deletion_queue.
EngineDtorFlush ==
    /\ pc = "engine_dtor_flush"
    /\ SetWorld(delete_all(FlushFrames(World(<<>>), 0), m_deletion_queue))
    /\ frameDq' = [s \in Slots |-> <<>>]
    /\ m_deletion_queue' = <<>>
    /\ pc' = "done"
    /\ UNCHANGED <<appDq, forwardDq, imguiDq, m_frame_idx, fence, cmd, recorded, inflight, frameNo,
                   inflightFrame, completedFrames, lastAcquire, lastPresent, immVars,
                   appVars, dqVars, meshVars, syncVars, loopVars>>

(* ------------------------- the whole program --------------------------- *)
Next ==
    \/ MainStart \/ MainReturn
    \/ EngineInit \/ ForwardPassInit \/ ImGuiPassInit \/ SamplerInit
    \/ SceneBegin \/ MaterialBegin \/ MaterialFinish \/ MeshBegin \/ MeshFinish
    \/ SceneDone
    \/ ImmResetFence \/ ImmResetCmd \/ ImmBegin \/ ImmRecord \/ ImmEnd \/ ImmSubmit
    \/ ImmWait \/ GpuCompleteImm
    \/ RunPoll \/ RefreshWaitIdle \/ RefreshRebuild
    \/ StartFrameWait \/ StartFrameResetFence \/ StartFrameFlush \/ StartFrameAcquire
    \/ StartFrameResetCmd \/ StartFrameBegin \/ RecordFrame
    \/ FinishFrameEnd \/ FinishFrameSubmit \/ FinishFramePresent \/ FinishFrameAdvance
    \/ \E s \in Slots : GpuComplete(s)
    \/ AppDtorBegin \/ AppDtorWait \/ AppDtorFlush \/ ImGuiPassDtor \/ ForwardPassDtor
    \/ EngineDtorWait \/ EngineDtorFlush

Spec == Init /\ [][Next]_vars

\* The whole program with a GPU that finishes every submission.
SpecLive == Spec /\ WF_vars(\E s \in Slots : GpuComplete(s))

(* --------------------- a DeletionQueue on its own ---------------------- *)
\* DeletionQueue::add
DqAdd(c) ==
    /\ Len(tq) < MaxQueueLen
    /\ tq' = Append(tq, R("probe", c))
    /\ tflushes' = 0
    /\ UNCHANGED <<tqBefore, tlog>>

\* (variant: m_queue is not cleared)
DqDeleteAll_NoClear ==
    /\ tlog' = delete_all(World(<<>>), tq).ran
    /\ tqBefore' = tq
    /\ tq' = tq
    /\ tflushes' = IF tflushes < 2 THEN tflushes + 1 ELSE 2

\* DeletionQueue::delete_all: the closures are called, then m_queue.clear().
DqDeleteAll ==
    /\ tlog' = delete_all(World(<<>>), tq).ran
    /\ tqBefore' = tq
    /\ tq' = <<>>
    /\ tflushes' = IF tflushes < 2 THEN tflushes + 1 ELSE 2

NextDQ ==
    /\ \/ \E c \in 1 .. NumClosures : DqAdd(c)
       \/ DqDeleteAll
    /\ UNCHANGED <<pc, worldVars, queueVars, frameVars, immVars, appVars, meshVars, syncVars, loopVars>>

SpecDQ == Init /\ [][NextDQ]_vars

(* ------------------- one App::create_mesh, byte by byte ----------------- *)
\* The bytes of n elements of size bytes each; every byte is its own value.
SourceBytes(tag, n, size) == [k \in 1 .. n * size |-> <<tag, k>>]

\* A new buffer of size bytes: what it holds is not defined.
NewBuffer(size) == [k \in 1 .. size |-> <<"?", 0>>]

\* std::memcpy(dst + offset, src, Len(src))
memcpy(dst, offset, src) ==
    [k \in 1 .. Len(dst) |->
        IF k > offset /\ k <= offset + Len(src) THEN src[k - offset] ELSE dst[k]]

\* What vkCmdCopyBuffer with one VkBufferCopy region does when it executes.
CopyBuffer(src, dst, region) ==
    [k \in 1 .. Len(dst) |->
        IF k > region.dstOffset /\ k <= region.dstOffset + region.size
        THEN src[region.srcOffset + (k - region.dstOffset)]
        ELSE dst[k]]

\* (variant: the index copy reads from the start of the staging buffer)
vertex_and_index_regions_IndexFromZero(vertex_buffer_size, index_buffer_size) ==
    << [srcOffset |-> 0, dstOffset |-> 0, size |-> vertex_buffer_size],
       [srcOffset |-> 0, dstOffset |-> 0, size |-> index_buffer_size] >>

\* copy_vertex_region and copy_index_region of create_mesh's closure.
vertex_and_index_regions(vertex_buffer_size, index_buffer_size) ==
    << [srcOffset |-> 0, dstOffset |-> 0, size |-> vertex_buffer_size],
       [srcOffset |-> vertex_buffer_size, dstOffset |-> 0, size |-> index_buffer_size] >>

\* create_mesh is called with a vertex span and an index span.
CreateMeshCall ==
    /\ mpc = "idle"
    /\ \E nv \in 0 .. MaxVertices, ni \in 0 .. MaxIndices :
         /\ vertices' = SourceBytes("vertex", nv, SizeofVertex)
         /\ indices' = SourceBytes("index", ni, SizeofIndex)
    /\ mpc' = "create_buffers"
    /\ UNCHANGED <<transfer_buffer, vertex_buffer, index_buffer, copies>>

\* The three create_buffer calls; a buffer of size 0 cannot be created, and
\* when one fails those made before it are destroyed and false is returned.
CreateMeshBuffers ==
    /\ mpc = "create_buffers"
    /\ \E ok \in BOOLEAN :
         IF ok /\ Len(vertices) > 0 /\ Len(indices) > 0
         THEN /\ transfer_buffer' = NewBuffer(Len(vertices) + Len(indices))
              /\ vertex_buffer' = NewBuffer(Len(vertices))
              /\ index_buffer' = NewBuffer(Len(indices))
              /\ mpc' = "memcpy_vertices"
         ELSE /\ mpc' = "failed"
              /\ UNCHANGED <<transfer_buffer, vertex_buffer, index_buffer>>
    /\ UNCHANGED <<vertices, indices, copies>>

\* memcpy(pMappedData, vertices.data(), vertex_buffer_size)
CreateMeshCopyVertices ==
    /\ mpc = "memcpy_vertices"
    /\ transfer_buffer' = memcpy(transfer_buffer, 0, vertices)
    /\ mpc' = "memcpy_indices"
    /\ UNCHANGED <<vertices, indices, vertex_buffer, index_buffer, copies>>

\* memcpy(pMappedData + vertex_buffer_size, indices.data(), index_buffer_size)
CreateMeshCopyIndices ==
    /\ mpc = "memcpy_indices"
    /\ transfer_buffer' = memcpy(transfer_buffer, Len(vertices), indices)
    /\ mpc' = "record"
    /\ UNCHANGED <<vertices, indices, vertex_buffer, index_buffer, copies>>

\* The closure handed to immediate_submit records the two copies.
CreateMeshRecord ==
    /\ mpc = "record"
    /\ copies' = vertex_and_index_regions(Len(vertices), Len(indices))
    /\ mpc' = "submit"
    /\ UNCHANGED <<vertices, indices, transfer_buffer, vertex_buffer, index_buffer>>

\* immediate_submit returns: when it succeeded the GPU has executed the two
\* copies and the staging buffer is destroyed; when it failed all three
\* buffers are destroyed.
CreateMeshSubmit ==
    /\ mpc = "submit"
    /\ \E ok \in BOOLEAN :
         IF ok
         THEN /\ vertex_buffer' = CopyBuffer(transfer_buffer, vertex_buffer, copies[1])
              /\ index_buffer' = CopyBuffer(transfer_buffer, index_buffer, copies[2])
              /\ mpc' = "succeeded"
         ELSE /\ vertex_buffer' = <<>>
              /\ index_buffer' = <<>>
              /\ mpc' = "failed"
    /\ transfer_buffer' = <<>>
    /\ UNCHANGED <<vertices, indices, copies>>

NextMesh ==
    /\ \/ CreateMeshCall \/ CreateMeshBuffers \/ CreateMeshCopyVertices
       \/ CreateMeshCopyIndices \/ CreateMeshRecord \/ CreateMeshSubmit
    /\ UNCHANGED <<pc, worldVars, queueVars, frameVars, immVars, appVars, dqVars, syncVars, loopVars>>

SpecMesh == Init /\ [][NextMesh]_vars

(* ============ the frame loop with its semaphores in view =============== *)
\* The pipeline stages the recorded commands work in, and the stages a stage
\* mask of the source covers.
Stages == {"TRANSFER", "COLOR_ATTACHMENT_OUTPUT"}

StageMask(mask) ==
    CASE mask = "ALL_COMMANDS" -> Stages
      [] mask = "ALL_GRAPHICS" -> {"COLOR_ATTACHMENT_OUTPUT"}
      [] mask = "COLOR_ATTACHMENT_OUTPUT" -> {"COLOR_ATTACHMENT_OUTPUT"}
      [] mask = "TRANSFER" -> {"TRANSFER"}

\* finish_frame: the submission waits for frame.render_semaphore at the color
\* attachment output stage and signals frame.present_semaphore for the
\* graphics stages.
WaitStageMask == "COLOR_ATTACHMENT_OUTPUT"
SignalStageMask == "ALL_GRAPHICS"

IsBarrier(c) == c.op = "vkCmdPipelineBarrier2"

\* The recorded commands the GPU has work to do for.
IsWork(c) == c.op \notin {"vkCmdBeginRendering", "vkCmdEndRendering"}

StageOf(c) ==
    IF c.op \in {"vkCmdClearColorImage", "vkCmdBlitImage2"} THEN "TRANSFER"
    ELSE "COLOR_ATTACHMENT_OUTPUT"

WorkOf(cmds) == {i \in 1 .. Len(cmds) : IsWork(cmds[i])}

SlotOf(f) == (f - 1) % NUM_FRAMES_IN_FLIGHT

\* The GPU may execute command i of a submission: a barrier after everything
\* in its first scope, another command after every earlier barrier whose
\* second scope holds its stage; the stage the submission's semaphore wait
\* names, and every barrier that has that stage in its first scope, after the
\* wait.
CanExecute(b, cmds, i) ==
    LET c == cmds[i] IN
    /\ i \in WorkOf(cmds) \ b.executed
    /\ IF IsBarrier(c)
       THEN /\ \A k \in WorkOf(cmds) :
                 (/\ k < i
                  /\ IF IsBarrier(cmds[k])
                     THEN StageMask(cmds[k].dstStageMask) \cap StageMask(c.srcStageMask) # {}
                     ELSE StageOf(cmds[k]) \in StageMask(c.srcStageMask))
                 => k \in b.executed
            /\ (StageMask(WaitStageMask) \cap StageMask(c.srcStageMask) # {}) => b.waited
       ELSE /\ \A k \in WorkOf(cmds) :
                 (k < i /\ IsBarrier(cmds[k])
                    /\ StageOf(c) \in StageMask(cmds[k].dstStageMask))
                 => k \in b.executed
            /\ (StageOf(c) \in StageMask(WaitStageMask)) => b.waited

\* The first scope of the semaphore signal of a submission has completed.
SignalReady(b, cmds) ==
    /\ \A k \in WorkOf(cmds) :
         (IF IsBarrier(cmds[k])
          THEN StageMask(cmds[k].dstStageMask) \cap StageMask(SignalStageMask) # {}
          ELSE StageOf(cmds[k]) \in StageMask(SignalStageMask))
         => k \in b.executed
    /\ (StageMask(WaitStageMask) \cap StageMask(SignalStageMask) # {}) => b.waited

\* The first scope of the fence signal of a submission: all of it.
FenceReady(b, cmds) == b.waited /\ b.signaled /\ WorkOf(cmds) \subseteq b.executed

\* start_frame: vkWaitForFences returns once the slot's fence is signaled,
\* vkResetFences unsignals it.
SyncWaitFence ==
    /\ spc = "wait_fence"
    /\ sfence[sidx]
    /\ sfence' = [sfence EXCEPT ![sidx] = FALSE]
    /\ spc' = "acquire"
    /\ UNCHANGED <<sidx, sframe, render_semaphore, present_semaphore, acquired, batch,
                   finished, present_request>>

\* start_frame: vkAcquireNextImageKHR hands out an image index and has
\* frame.render_semaphore signaled once the image may be written.
SyncAcquire ==
    /\ spc = "acquire"
    /\ \E ok \in BOOLEAN :
         IF ok THEN /\ acquired' = [acquired EXCEPT ![sframe] = "in_use"]
                    /\ spc' = "submit"
         ELSE /\ spc' = "stopped"
              /\ UNCHANGED acquired
    /\ UNCHANGED <<sidx, sframe, render_semaphore, present_semaphore, sfence, batch,
                   finished, present_request>>

\* The presentation engine lets go of the acquired image.
SyncImageAvailable(f) ==
    /\ acquired[f] = "in_use"
    /\ acquired' = [acquired EXCEPT ![f] = "available"]
    /\ render_semaphore' = [render_semaphore EXCEPT ![SlotOf(f)] = "signaled"]
    /\ UNCHANGED <<spc, sidx, sframe, present_semaphore, sfence, batch, finished,
                   present_request>>

\* finish_frame: vkQueueSubmit2 of the slot's command buffer.
SyncSubmit ==
    /\ spc = "submit"
    /\ \E ok \in BOOLEAN :
         IF ok THEN /\ batch' = [batch EXCEPT ![sidx] =
                                   [frame |-> sframe, state |-> "pending",
                                    waited |-> FALSE, executed |-> {},
                                    signaled |-> FALSE]]
                    /\ spc' = "present"
         ELSE /\ spc' = "stopped"
              /\ UNCHANGED batch
    /\ UNCHANGED <<sidx, sframe, render_semaphore, present_semaphore, sfence, acquired,
                   finished, present_request>>

\* The semaphore wait of a submission: it unsignals frame.render_semaphore.
SyncSemaphoreWait(s) ==
    /\ batch[s].state = "pending"
    /\ ~batch[s].waited
    /\ render_semaphore[s] = "signaled"
    /\ render_semaphore' = [render_semaphore EXCEPT ![s] = "unsignaled"]
    /\ batch' = [batch EXCEPT ![s].waited = TRUE]
    /\ UNCHANGED <<spc, sidx, sframe, present_semaphore, sfence, acquired, finished,
                   present_request>>

\* The GPU executes one recorded command of a submission.
SyncExecute(s, i) ==
    /\ batch[s].state = "pending"
    /\ CanExecute(batch[s], render_frame_commands, i)
    /\ batch' = [batch EXCEPT ![s].executed = @ \cup {i}]
    /\ UNCHANGED <<spc, sidx, sframe, render_semaphore, present_semaphore, sfence,
                   acquired, finished, present_request>>

\* The semaphore signal of a submission: frame.present_semaphore.
SyncSignalSemaphore(s) ==
    /\ batch[s].state = "pending"
    /\ ~batch[s].signaled
    /\ SignalReady(batch[s], render_frame_commands)
    /\ present_semaphore[s] = "unsignaled"
    /\ present_semaphore' = [present_semaphore EXCEPT ![s] = "signaled"]
    /\ batch' = [batch EXCEPT ![s].signaled = TRUE]
    /\ finished' = finished \cup {batch[s].frame}
    /\ UNCHANGED <<spc, sidx, sframe, render_semaphore, sfence, acquired, present_request>>

\* The fence signal of a submission: frame.fence.
SyncSignalFence(s) ==
    /\ batch[s].state = "pending"
    /\ FenceReady(batch[s], render_frame_commands)
    /\ batch' = [batch EXCEPT ![s].state = "complete"]
    /\ sfence' = [sfence EXCEPT ![s] = TRUE]
    /\ UNCHANGED <<spc, sidx, sframe, render_semaphore, present_semaphore, acquired,
                   finished, present_request>>

\* finish_frame: vkQueuePresentKHR waiting for frame.present_semaphore, then
\* the step to the next slot.
SyncPresent ==
    /\ spc = "present"
    /\ present_request' = [present_request EXCEPT ![sframe] = "queued"]
    /\ sidx' = (sidx + 1) % NUM_FRAMES_IN_FLIGHT
    /\ IF sframe < MaxSyncFrames
       THEN sframe' = sframe + 1 /\ spc' = "wait_fence"
       ELSE sframe' = sframe /\ spc' = "stopped"
    /\ UNCHANGED <<render_semaphore, present_semaphore, sfence, acquired, batch, finished>>

\* The presentation engine starts on a present request, the requests of the
\* queue in their order: it unsignals the semaphore the request waits for.
SyncPresentBegins(f) ==
    /\ present_request[f] = "queued"
    /\ \A g \in SyncFrames : g < f => present_request[g] # "queued"
    /\ present_semaphore[SlotOf(f)] = "signaled"
    /\ present_semaphore' = [present_semaphore EXCEPT ![SlotOf(f)] = "unsignaled"]
    /\ present_request' = [present_request EXCEPT ![f] = "begun"]
    /\ acquired' = [acquired EXCEPT ![f] = "presenting"]
    /\ UNCHANGED <<spc, sidx, sframe, render_semaphore, sfence, batch, finished>>

NextSync ==
    /\ \/ SyncWaitFence \/ SyncAcquire \/ SyncSubmit \/ SyncPresent
       \/ \E f \in SyncFrames : SyncImageAvailable(f) \/ SyncPresentBegins(f)
       \/ \E s \in Slots : \/ SyncSemaphoreWait(s) \/ SyncSignalSemaphore(s)
                           \/ SyncSignalFence(s)
                           \/ \E i \in 1 .. Len(render_frame_commands) : SyncExecute(s, i)
    /\ UNCHANGED <<pc, worldVars, queueVars, frameVars, immVars, appVars, dqVars, meshVars, loopVars>>

SpecSync == Init /\ [][NextSync]_vars

(* ============== App::run with its event stream in view ================= *)
\* The events SDL_PollEvent can deliver, and the streams App::run can find.
QueueEvents == Events \ {"none"}

EventStreams == UNION {[1 .. n -> QueueEvents] : n \in 0 .. MaxEvents}

\* (variant: the iteration ends after its event, with no frame)
LoopAfter_AlwaysContinues(disabled) == lpc' = "poll"

\* After the events of an iteration: `continue` when rendering is disabled,
\* render_frame otherwise.
LoopAfter(disabled) == IF disabled THEN lpc' = "poll" ELSE lpc' = "start_frame"

\* (variant: a quit event is passed over like any other event)
LoopHandle_QuitIgnored(e) ==
    CASE e = "resize" ->
           /\ lpc' = "refresh"
           /\ UNCHANGED <<loop_disable_render, loop_exit>>
      [] OTHER ->
           /\ loop_disable_render' = CASE e = "minimized" -> TRUE
                                       [] e = "restored" -> FALSE
                                       [] OTHER -> loop_disable_render
           /\ LoopAfter(loop_disable_render')
           /\ UNCHANGED loop_exit

\* The if/else chain over the type of the polled event.
LoopHandle(e) ==
    CASE e = "quit" ->
           /\ lpc' = "returned"
           /\ loop_exit' = "quit"
           /\ UNCHANGED loop_disable_render
      [] e = "resize" ->
           /\ lpc' = "refresh"
           /\ UNCHANGED <<loop_disable_render, loop_exit>>
      [] OTHER ->
           /\ loop_disable_render' = CASE e = "minimized" -> TRUE
                                       [] e = "restored" -> FALSE
                                       [] OTHER -> loop_disable_render
           /\ LoopAfter(loop_disable_render')
           /\ UNCHANGED loop_exit

\* main calls App::run with some events waiting.
LoopEnter ==
    /\ lpc = "idle"
    /\ \E q \in EventStreams : event_queue' = q
    /\ lpc' = "poll"
    /\ UNCHANGED <<loop_disable_render, loop_idx, loop_inflight, polls, polled, rendered,
                   last_event, loop_exit>>

\* The top of an iteration: one SDL_PollEvent, and the event it delivered.
LoopPoll ==
    /\ lpc = "poll"
    /\ polls' = IF polls <= MaxEvents THEN polls + 1 ELSE polls
    /\ rendered' = 0
    /\ IF event_queue = <<>>
       THEN /\ last_event' = "none"
            /\ LoopHandle("none")
            /\ UNCHANGED <<event_queue, polled>>
       ELSE /\ last_event' = Head(event_queue)
            /\ event_queue' = Tail(event_queue)
            /\ polled' = polled + 1
            /\ LoopHandle(Head(event_queue))
    /\ UNCHANGED <<loop_idx, loop_inflight>>

\* refresh_swapchain for a resize: vkDeviceWaitIdle, then the rebuild.
LoopRefresh ==
    /\ lpc = "refresh"
    /\ loop_inflight = {}
    /\ \E ok \in BOOLEAN :
         IF ok THEN LoopAfter(loop_disable_render) /\ UNCHANGED loop_exit
         ELSE lpc' = "returned" /\ loop_exit' = "resize_failed"
    /\ UNCHANGED <<event_queue, loop_disable_render, loop_idx, loop_inflight, polls, polled,
                   rendered, last_event>>

\* start_frame: the wait for the slot's fence and the calls after it.
LoopStartFrame ==
    /\ lpc = "start_frame"
    /\ \E ok \in BOOLEAN :
         IF ok THEN /\ loop_idx \notin loop_inflight
                    /\ lpc' = "finish_frame"
                    /\ UNCHANGED loop_exit
         ELSE lpc' = "returned" /\ loop_exit' = "frame_failed"
    /\ UNCHANGED <<event_queue, loop_disable_render, loop_idx, loop_inflight, polls, polled,
                   rendered, last_event>>

\* The recording and finish_frame up to the present.
LoopFinishFrame ==
    /\ lpc = "finish_frame"
    /\ \E res \in {"presented", "not_presented", "failed"} :
         CASE res = "presented" ->
                /\ loop_inflight' = loop_inflight \cup {loop_idx}
                /\ loop_idx' = (loop_idx + 1) % NUM_FRAMES_IN_FLIGHT
                /\ rendered' = IF rendered < 2 THEN rendered + 1 ELSE rendered
                /\ lpc' = "poll"
                /\ UNCHANGED loop_exit
           [] res = "not_presented" ->
                /\ loop_inflight' = loop_inflight \cup {loop_idx}
                /\ lpc' = "frame_refresh"
                /\ UNCHANGED <<loop_idx, rendered, loop_exit>>
           [] OTHER ->
                /\ lpc' = "returned"
                /\ loop_exit' = "frame_failed"
                /\ UNCHANGED <<loop_idx, loop_inflight, rendered>>
    /\ UNCHANGED <<event_queue, loop_disable_render, polls, polled, last_event>>

\* refresh_swapchain called by finish_frame, and the end of finish_frame.
LoopFrameRefresh ==
    /\ lpc = "frame_refresh"
    /\ loop_inflight = {}
    /\ \E ok \in BOOLEAN :
         IF ok THEN /\ loop_idx' = (loop_idx + 1) % NUM_FRAMES_IN_FLIGHT
                    /\ rendered' = IF rendered < 2 THEN rendered + 1 ELSE rendered
                    /\ lpc' = "poll"
                    /\ UNCHANGED loop_exit
         ELSE /\ lpc' = "returned"
              /\ loop_exit' = "frame_failed"
              /\ UNCHANGED <<loop_idx, rendered>>
    /\ UNCHANGED <<event_queue, loop_disable_render, loop_inflight, polls, polled,
                   last_event>>

\* The GPU finishes the submission of slot s.
LoopGpuComplete(s) ==
    /\ s \in loop_inflight
    /\ loop_inflight' = loop_inflight \ {s}
    /\ UNCHANGED <<lpc, event_queue, loop_disable_render, loop_idx, polls, polled, rendered,
                   last_event, loop_exit>>

\* The steps of the thread that runs App::run, and the steps of the GPU.
LoopCpu ==
    \/ LoopEnter \/ LoopPoll \/ LoopRefresh \/ LoopStartFrame \/ LoopFinishFrame
    \/ LoopFrameRefresh

LoopGpu == \E s \in Slots : LoopGpuComplete(s)

NextLoop ==
    /\ LoopCpu \/ LoopGpu
    /\ UNCHANGED <<pc, worldVars, queueVars, frameVars, immVars, appVars, dqVars, meshVars,
                   syncVars>>

\* The thread goes on while it can, and the GPU finishes what was submitted.
SpecLoop ==
    /\ Init /\ [][NextLoop]_vars
    /\ WF_loopVars(LoopCpu)
    /\ WF_loopVars(LoopGpu)

(* ============================ properties =============================== *)
\* The CPU positions between the fence wait of start_frame and the submit of
\* finish_frame: the slot's command buffer is reset, recorded and ended here.
RecordingPcs == {"sf_reset_fence", "sf_flush", "sf_acquire", "sf_reset_cmd", "sf_begin",
                 "record", "ff_end", "ff_submit"}

\* C1: a slot's command buffer is reset and recorded only when the GPU has
\* finished the slot's previous submission; with two slots, frame k+2 is not
\* recorded before frame k is complete on the GPU.
C1_FenceGating ==
    /\ pc \in RecordingPcs =>
         /\ m_frame_idx \notin inflight
         /\ frameNo > NUM_FRAMES_IN_FLIGHT =>
              (frameNo - NUM_FRAMES_IN_FLIGHT) \in completedFrames
    /\ \A s \in Slots : cmd[s] \in {"initial", "recording"} => s \notin inflight

\* The third frame is being recorded while the second is still on the GPU.
C1_Witness ==
    /\ pc = "record"
    /\ frameNo = NUM_FRAMES_IN_FLIGHT + 1
    /\ inflight = {1 - m_frame_idx}
    /\ cmd[m_frame_idx] = "recording"

\* The positions in m_deletion_queue of the entries init_swapchain appended.
GuardPositions ==
    {i \in 1 .. Len(m_deletion_queue) : m_deletion_queue[i].kind = "swapchain_guard"}

\* The position of the entry appended during the first refresh_swapchain: the
\* second of them, the first being Engine::init's.
FirstRefreshGuard ==
    CHOOSE i \in GuardPositions :
        Cardinality({j \in GuardPositions : j < i}) = 1

\* The world of the flush of m_deletion_queue at the moment the entry at
\* position i is about to be called: the later entries have been called.
FlushUpTo(i) ==
    delete_all(World(<<>>), SubSeq(m_deletion_queue, i + 1, Len(m_deletion_queue)))

\* C2: once refresh_swapchain has been called twice, the entry of the first
\* call does nothing when m_deletion_queue is flushed: no object is destroyed
\* by it, in particular not the swapchain and views of the second call.
C2_StaleGuardIsNoOp ==
    (refreshCalls >= 2 /\ lastRefresh # "running" /\ Cardinality(GuardPositions) >= 2) =>
        LET before == FlushUpTo(FirstRefreshGuard)
            after == RunClosure(before, m_deletion_queue[FirstRefreshGuard])
        IN  /\ after.alive = before.alive
            /\ after.log = before.log
            /\ after.misuse = before.misuse
            /\ m_deletion_queue[FirstRefreshGuard].arg # m_swapchain.generation

\* The engine is about to flush m_deletion_queue after two successful
\* refresh_swapchain calls, with the second call's swapchain alive.
C2_Witness ==
    /\ pc = "engine_dtor_flush"
    /\ refreshCalls = 2
    /\ lastRefresh = "ok"
    /\ Cardinality(GuardPositions) = 3
    /\ R("swapchain", m_swapchain.swapchain) \in alive

RECURSIVE Reverse(_)
Reverse(q) == IF q = <<>> THEN <<>> ELSE Append(Reverse(Tail(q)), Head(q))

\* C3: delete_all calls the queued closures once each, in the reverse of the
\* order in which they were added, and leaves the queue empty.
C3_ReverseOrder ==
    /\ tlog = Reverse(tqBefore)
    /\ Len(tlog) = Len(tqBefore)

\* Three closures, the first and the last different, have been flushed.
C3_Witness ==
    /\ Len(tqBefore) = 3
    /\ tqBefore[1] # tqBefore[3]
    /\ Len(tlog) = 3
    /\ tq = <<>>

C5_StaleAcquireRecovered ==
    lastAcquire = "VK_ERROR_OUT_OF_DATE_KHR" => exitWhy # "frame_failed"

\* C6: when the present reports an out-of-date surface and refresh_swapchain
\* then succeeds, finish_frame goes on to advance the slot index and returns
\* true, and the run loop goes to its next iteration.
C6_PresentRecovers ==
    [][/\ (/\ pc = "refresh_rebuild"
           /\ refreshCaller = "finish_frame"
           /\ lastPresent = "VK_ERROR_OUT_OF_DATE_KHR"
           /\ lastRefresh' = "ok") =>
             (pc' = "ff_advance" /\ exitWhy' = "none")
       /\ (pc = "ff_advance" /\ pc' # pc) =>
             /\ pc' = "run_poll"
             /\ m_frame_idx' = (m_frame_idx + 1) % NUM_FRAMES_IN_FLIGHT
             /\ exitWhy' = "none"]_vars

\* The first frame's present was out of date, the refresh succeeded, and the
\* loop is at its next iteration with the next slot.
C6_Witness ==
    /\ pc = "run_poll"
    /\ lastPresent = "VK_ERROR_OUT_OF_DATE_KHR"
    /\ refreshCaller = "finish_frame"
    /\ lastRefresh = "ok"
    /\ frameNo = 1
    /\ m_frame_idx = 1
    /\ exitWhy = "none"

\* The CPU positions of the destructors at which deletion closures are called.
DtorFlushPcs == {"app_dtor_flush", "imgui_dtor", "forward_dtor", "engine_dtor_flush"}

LiveOf(k) == {r \in alive : r.kind = k}

\* C8: after resize events whose refreshes succeeded, exactly one swapchain
\* and one set of views exist, those created last; none is destroyed twice,
\* and at the end of the program none is left.
C8_OneLiveSwapchain ==
    /\ (lastRefresh = "ok" /\ pc \notin {"refresh_wait", "refresh_rebuild", "done"}) =>
         /\ LiveOf("swapchain") = {R("swapchain", nextSc - 1)}
         /\ LiveOf("image_views") = {R("image_views", nextSc - 1)}
         /\ m_swapchain.swapchain = nextSc - 1
         /\ m_swapchain.image_views = nextSc - 1
    /\ \A r \in misuse : r.kind \notin {"swapchain", "image_views"}
    /\ pc = "done" => (LiveOf("swapchain") = {} /\ LiveOf("image_views") = {})

\* Three resize events have been handled and nothing else refreshed.
C8_Witness ==
    /\ resizes = 3
    /\ refreshCalls = 3
    /\ lastRefresh = "ok"
    /\ pc = "sf_wait"
    /\ nextSc = 5

\* The native calls of one immediate_submit, in the order claimed; the submit
\* waits on no semaphore and signals none.
C9_Order ==
    << Call("vkResetFences", 0, 0), Call("vkResetCommandBuffer", 0, 0),
       Call("vkBeginCommandBuffer", 0, 0), Call("f", 0, 0),
       Call("vkEndCommandBuffer", 0, 0), Call("vkQueueSubmit2", 0, 0),
       Call("vkWaitForFences", 0, 0) >>

ImmReturnedPcs == {"image_after_submit", "mesh_after_submit"}

\* C9: the calls of immediate_submit are always a prefix of the claimed order,
\* and when it returns true all of them were made and the GPU has finished
\* the submission.
C9_ImmediateOrder ==
    /\ Len(immTrace) <= Len(C9_Order)
    /\ immTrace = SubSeq(C9_Order, 1, Len(immTrace))
    /\ (pc \in ImmReturnedPcs /\ immResult) =>
         /\ immTrace = C9_Order
         /\ immInflight = 0
         /\ immFence

\* create_mesh got true from immediate_submit.
C9_Witness ==
    /\ pc = "mesh_after_submit"
    /\ immResult
    /\ Len(immTrace) = 7

ImmBeforeSubmitPcs == {"imm_reset_fence", "imm_reset_cmd", "imm_begin", "imm_record",
                       "imm_end", "imm_submit"}

\* C10: never more than one immediate submission is unfinished; the command
\* buffer is reset and recorded only when none is; the fence is unsignaled
\* when the submit is made and signaled when the wait has returned.
C10_OneImmediateInFlight ==
    /\ immInflight <= 1
    /\ pc \in ImmBeforeSubmitPcs => immInflight = 0
    /\ immCmd \in {"initial", "recording"} => immInflight = 0
    /\ pc \in {"imm_reset_cmd", "imm_begin", "imm_record", "imm_end", "imm_submit"} =>
         ~immFence
    /\ (pc \in ImmReturnedPcs /\ immResult) => immFence

\* A second immediate submission is on the GPU after the first one returned.
C10_Witness ==
    /\ pc = "imm_wait"
    /\ immInflight = 1
    /\ load.mat + load.mesh >= 1
    /\ ~immFence

\* The elements of a sequence.
Range(q) == {q[i] : i \in 1 .. Len(q)}

\* How often r was destroyed.
Destroyed(r) == Cardinality({i \in 1 .. Len(destroyLog) : destroyLog[i] = r})

\* The images create_image is called for.
CreatedImages == {RenderTarget, DepthTarget} \cup {MaterialImage(i) : i \in 1 .. MaxMaterials}

\* The material whose image create_image_from_file is working on, if any.
MaterialInProgress ==
    IF immCaller = "image" /\ (pc \in ImmBeforeSubmitPcs \cup {"imm_wait", "image_after_submit"})
    THEN {load.mat + 1} ELSE {}

\* C11: when the view of an image cannot be created, create_image releases
\* the image it had allocated: nothing more is allocated than before the
\* call, and an image that exists always has its view and its owner.
C11_ViewFailureRollsBack ==
    /\ \A img \in CreatedImages :
         R(img.image, img.arg) \notin alive =>
           LET w == create_image(World(<<>>), img, "view_fails")
           IN  /\ w.alive = alive
               /\ w.misuse = misuse
               /\ w.log = Append(destroyLog, R(img.image, img.arg))
    /\ \A img \in CreatedImages :
         R(img.image, img.arg) \in alive => R(img.view, img.arg) \in alive
    /\ R("render_target.image", 0) \in alive => R("render_target", 0) \in Range(forwardDq)
    /\ R("depth_target.image", 0) \in alive => R("depth_target", 0) \in Range(forwardDq)
    /\ \A i \in 1 .. MaxMaterials :
         R("material.image", i) \in alive =>
           (i \in Range(scene.materials) \/ i \in MaterialInProgress)

\* ForwardPass::init failed because the view of the depth target could not
\* be created: the depth image was released, the render target is queued.
C11_Witness ==
    /\ pc = "app_dtor"
    /\ destroyLog = <<R("depth_target.image", 0)>>
    /\ forwardDq = <<R("render_target", 0)>>
    /\ R("render_target.image", 0) \in alive

MeshKinds == {"mesh.staging", "mesh.vertex_buffer", "mesh.index_buffer"}

\* The mesh create_mesh is working on, if any.
MeshInProgress ==
    IF immCaller = "mesh" /\ (pc \in ImmBeforeSubmitPcs \cup {"imm_wait", "mesh_after_submit"})
    THEN {load.mesh + 1} ELSE {}

\* C12: a buffer of create_mesh exists only while the call is running or,
\* for the vertex and index buffer, while the mesh is in the scene; no such
\* buffer is released twice or without existing; a mesh in the scene has its
\* vertex and index buffer, and its staging buffer was released once.
C12_MeshUnwinds ==
    /\ \A r \in misuse : r.kind \notin MeshKinds
    /\ \A r \in Range(destroyLog) : r.kind \in MeshKinds => Destroyed(r) = 1
    /\ \A r \in alive :
         /\ r.kind = "mesh.staging" => r.arg \in MeshInProgress
         /\ r.kind \in {"mesh.vertex_buffer", "mesh.index_buffer"} =>
              (r.arg \in MeshInProgress \/ r.arg \in Range(scene.meshes))
    /\ \A i \in Range(scene.meshes) :
         /\ R("mesh.vertex_buffer", i) \in alive
         /\ R("mesh.index_buffer", i) \in alive
         /\ Destroyed(R("mesh.staging", i)) = 1
    /\ \A i \in MeshInProgress :
         {R("mesh.staging", i), R("mesh.vertex_buffer", i), R("mesh.index_buffer", i)}
             \subseteq alive

\* The second mesh failed at its index buffer after the first was loaded.
C12_Witness ==
    /\ pc = "app_dtor"
    /\ load.mesh = 1
    /\ Destroyed(R("mesh.staging", 2)) = 1
    /\ Destroyed(R("mesh.vertex_buffer", 2)) = 1
    /\ Destroyed(R("mesh.index_buffer", 2)) = 0
    /\ LiveOf("mesh.vertex_buffer") = {}

ImageFileKinds == {"image.staging", "material.image", "material.view"}

\* C13: the staging buffer of create_image_from_file exists only while the
\* call is running, the image and its view only then or while the material is
\* in the scene; none of them is released twice or without existing; a
\* material in the scene has its image, and its staging buffer was released
\* once.
C13_ImageFileUnwinds ==
    /\ \A r \in misuse : r.kind \notin ImageFileKinds
    /\ \A r \in Range(destroyLog) : r.kind \in ImageFileKinds => Destroyed(r) = 1
    /\ \A r \in alive :
         /\ r.kind = "image.staging" => r.arg \in MaterialInProgress
         /\ r.kind \in {"material.image", "material.view"} =>
              (r.arg \in MaterialInProgress \/ r.arg \in Range(scene.materials))
    /\ \A i \in Range(scene.materials) :
         /\ R("material.image", i) \in alive
         /\ R("material.view", i) \in alive
         /\ Destroyed(R("image.staging", i)) = 1
    /\ \A i \in MaterialInProgress :
         {R("image.staging", i), R("material.image", i), R("material.view", i)}
             \subseteq alive

\* The upload of the first material's image failed.
C13_Witness ==
    /\ pc = "app_dtor"
    /\ immCaller = "image"
    /\ ~immResult
    /\ Destroyed(R("image.staging", 1)) = 1
    /\ Destroyed(R("material.image", 1)) = 1
    /\ Destroyed(R("material.view", 1)) = 1

SceneKinds == {"mesh.vertex_buffer", "mesh.index_buffer", "material.image", "material.view"}

\* App::init has returned false and main is about to destroy the App.
InitFailed == pc = "app_dtor" /\ exitWhy = "none"

\* C14: no buffer of a mesh and no image of a material is destroyed twice or
\* without existing, and when the scene failed to load none of them, and no
\* staging buffer, is left, and the scene's lists are empty.
C14_FailedLoadLeavesNothing ==
    /\ \A r \in misuse : r.kind \notin SceneKinds
    /\ \A r \in Range(destroyLog) : r.kind \in SceneKinds => Destroyed(r) = 1
    /\ InitFailed =>
         /\ \A r \in alive : r.kind \notin SceneKinds \cup {"mesh.staging", "image.staging"}
         /\ scene.meshes = <<>> /\ scene.materials = <<>>
         /\ \A i \in 1 .. load.mat :
              Destroyed(R("material.image", i)) = 1 /\ Destroyed(R("material.view", i)) = 1
         /\ \A i \in 1 .. load.mesh :
              /\ Destroyed(R("mesh.vertex_buffer", i)) = 1
              /\ Destroyed(R("mesh.index_buffer", i)) = 1

\* The load failed after a material and a mesh had been loaded.
C14_Witness ==
    /\ InitFailed
    /\ load.mat = 1
    /\ load.mesh = 1
    /\ load.nMesh = 2
    /\ Destroyed(R("mesh.vertex_buffer", 1)) = 1
    /\ Destroyed(R("material.image", 1)) = 1

\* The CPU positions inside render_frame.
FramePcs == RecordingPcs \cup {"sf_wait", "ff_present", "ff_advance"}

C16_RoundRobin ==
    /\ m_frame_idx \in Slots
    /\ pc \in FramePcs => m_frame_idx = (frameNo - 1) % NUM_FRAMES_IN_FLIGHT
    /\ pc = "run_poll" => m_frame_idx = frameNo % NUM_FRAMES_IN_FLIGHT
    /\ \A s \in Slots :
         inflightFrame[s] # 0 => (inflightFrame[s] - 1) % NUM_FRAMES_IN_FLIGHT = s

\* The third frame is being recorded, in slot 0 again.
C16_Witness ==
    /\ pc = "record"
    /\ frameNo = NUM_FRAMES_IN_FLIGHT + 1
    /\ m_frame_idx = 0
    /\ inflightFrame[1] = 2

\* The slots whose command buffer is being recorded.
RecordingSlots == {s \in Slots : cmd[s] = "recording"}

\* C17: at most one slot is being recorded, and it is the current one; at most
\* N slots hold a submission the GPU has not finished; once the fence wait of
\* frame k has returned, every frame up to k - N has been finished by the GPU
\* and every unfinished submission belongs to one of the N - 1 frames before k.
C17_BoundedFramesAhead ==
    /\ Cardinality(RecordingSlots) <= 1
    /\ RecordingSlots \subseteq {m_frame_idx}
    /\ Cardinality(inflight) <= NUM_FRAMES_IN_FLIGHT
    /\ \A s \in inflight : inflightFrame[s] >= frameNo - NUM_FRAMES_IN_FLIGHT
    /\ pc \in FramePcs \ {"sf_wait"} =>
          /\ \A k \in 1 .. (frameNo - NUM_FRAMES_IN_FLIGHT) : k \in completedFrames
          /\ \A s \in inflight : inflightFrame[s] > frameNo - NUM_FRAMES_IN_FLIGHT

\* Both slots hold an unfinished submission and the third frame is held at
\* its fence wait.
C17_Witness ==
    /\ pc = "sf_wait"
    /\ frameNo = NUM_FRAMES_IN_FLIGHT + 1
    /\ inflight = Slots
    /\ ~fence[m_frame_idx]
    /\ completedFrames = {}

\* The layout of an image after the first n commands of a command buffer; the
\* contents before the first barrier are not relied on.
RECURSIVE LayoutAfter(_, _, _)
LayoutAfter(cmds, image, n) ==
    IF n = 0 THEN "VK_IMAGE_LAYOUT_UNDEFINED"
    ELSE IF cmds[n].op = "vkCmdPipelineBarrier2" /\ cmds[n].image = image
         THEN cmds[n].newLayout
         ELSE LayoutAfter(cmds, image, n - 1)

\* The layouts in which an image can be written as a color attachment.
ColorAttachmentWritable ==
    {"VK_IMAGE_LAYOUT_COLOR_ATTACHMENT_OPTIMAL", "VK_IMAGE_LAYOUT_ATTACHMENT_OPTIMAL",
     "VK_IMAGE_LAYOUT_GENERAL"}

\* The positions in a command buffer where rendering into the swapchain image
\* begins (the UI pass).
UiPassBegins(cmds) ==
    {i \in DOMAIN cmds : cmds[i].op = "vkCmdBeginRendering" /\ cmds[i].image = SwapchainImage}

\* C18: in every recorded frame the UI pass renders into the swapchain image,
\* the image is in a color-attachment-writable layout when that rendering
\* begins, and a later barrier leaves it in the present layout, which is the
\* layout it has when the command buffer is ended and submitted.
C18_SwapchainLayouts ==
    \A s \in Slots :
        LET cmds == recorded[s]
        IN  /\ cmd[s] \in {"executable", "pending"} => cmds # <<>>
            /\ cmds # <<>> =>
                 /\ UiPassBegins(cmds) # {}
                 /\ \A i \in UiPassBegins(cmds) :
                      /\ LayoutAfter(cmds, SwapchainImage, i - 1) \in ColorAttachmentWritable
                      /\ \E j \in DOMAIN cmds :
                           /\ j > i
                           /\ cmds[j] = transition_image(SwapchainImage,
                                            LayoutAfter(cmds, SwapchainImage, j - 1),
                                            "VK_IMAGE_LAYOUT_PRESENT_SRC_KHR")
                 /\ LayoutAfter(cmds, SwapchainImage, Len(cmds)) =
                        "VK_IMAGE_LAYOUT_PRESENT_SRC_KHR"

\* The places in the teardown order where an object of kind k was destroyed.
DestroyedAt(k) == {i \in 1 .. Len(destroyLog) : destroyLog[i].kind = k}

\* What is not created from the logical device: the surface and the debug
\* messenger belong to the instance.
InstanceLevel == {"surface", "debug_messenger", "instance"}

\* C19: once the logical device is destroyed only instance-level objects are
\* destroyed or still exist, so every resource made from the device (scene,
\* sampler, passes, swapchain, sync objects, descriptor pool, allocator) went
\* before it; the instance is the last object destroyed and nothing is left
\* when the teardown is over.
C19_DeviceAndInstanceLast ==
    /\ \A i \in DestroyedAt("device") :
         \A j \in (i + 1) .. Len(destroyLog) : destroyLog[j].kind \in InstanceLevel
    /\ DestroyedAt("device") # {} => \A r \in alive : r.kind \in InstanceLevel
    /\ DestroyedAt("instance") \subseteq {Len(destroyLog)}
    /\ DestroyedAt("instance") # {} => alive = {}
    /\ pc = "done" => alive = {}

\* A program that loaded its scene and rendered has been torn down: a mesh,
\* a material, the sampler, both passes, a swapchain, the sync objects, the
\* descriptor pool and the allocator were destroyed, then device and instance.
C19_Witness ==
    /\ pc = "done"
    /\ frameNo >= 1
    /\ \A k \in {"mesh.vertex_buffer", "material.image", "sampler", "imgui_backend",
                 "forward.pipeline", "render_target.image", "swapchain", "image_views",
                 "frame.fence", "imm.fence", "descriptor_pool", "allocator",
                 "device", "surface", "instance"} : DestroyedAt(k) # {}
    /\ destroyLog[Len(destroyLog)] = R("instance", 0)

\* The kinds of object that are buffers, images or swapchains.
AllocatedKinds ==
    {"mesh.staging", "mesh.vertex_buffer", "mesh.index_buffer", "image.staging",
     "material.image", "render_target.image", "depth_target.image", "swapchain"}

\* C20: the allocator exists only while the logical device does; in the
\* teardown order the destroy call right after the allocator's is the
\* device's and the one right before the device's is the allocator's; when
\* the allocator is destroyed no buffer, image or swapchain exists and none
\* is destroyed later.
C20_AllocatorNextToDevice ==
    /\ R("allocator", 0) \in alive => R("device", 0) \in alive
    /\ \A i \in DestroyedAt("allocator") :
         /\ i < Len(destroyLog)
         /\ destroyLog[i + 1] = R("device", 0)
         /\ \A j \in (i + 1) .. Len(destroyLog) : destroyLog[j].kind \notin AllocatedKinds
    /\ \A i \in DestroyedAt("device") : i > 1 /\ destroyLog[i - 1] = R("allocator", 0)
    /\ DestroyedAt("allocator") # {} => \A r \in alive : r.kind \notin AllocatedKinds
    /\ Cardinality(DestroyedAt("allocator")) <= 1

\* A program with meshes, a material and a recreated swapchain was torn
\* down: buffers, images and swapchains went first, then allocator, device.
C20_Witness ==
    /\ pc = "done"
    /\ resizes >= 1
    /\ DestroyedAt("allocator") # {}
    /\ \A k \in {"mesh.vertex_buffer", "mesh.index_buffer", "material.image",
                 "render_target.image", "depth_target.image"} : DestroyedAt(k) # {}
    /\ Cardinality(DestroyedAt("swapchain")) >= 2
    /\ \E i \in DestroyedAt("allocator") : destroyLog[i + 1] = R("device", 0)

\* main has returned after App::init failed: App::run was never entered, so
\* it never returned for a reason.
ExitedAfterFailedInit == pc = "done" /\ exit_status # -1 /\ exitWhy = "none"

\* C21: when the application's initialization failed, main returns a nonzero
\* exit status.
C21_FailedInitExitsNonzero ==
    /\ ExitedAfterFailedInit => exit_status # 0
    /\ (pc = "exited" /\ exit_status # -1) => exit_status # 0

\* The objects a successful step of Engine::init creates, in creation order.
CreatedByStep(st) ==
    CASE st.obj.kind = "instance" -> <<R("instance", 0), R("debug_messenger", 0)>>
      [] st.obj.kind = "init_swapchain" -> <<R("swapchain", 1), R("image_views", 1)>>
      [] st.creates -> <<st.obj>>
      [] OTHER -> <<>>

RECURSIVE CreatedBySteps(_, _)
\* The objects the first n steps of Engine::init create, in creation order.
CreatedBySteps(steps, n) ==
    IF n = 0 THEN <<>> ELSE CreatedBySteps(steps, n - 1) \o CreatedByStep(steps[n])

\* Engine::init failed: App::init returned before its later steps and the App
\* is being destroyed (the last object of Engine::init was never made).
EngineInitFailed ==
    /\ pc \in {"app_dtor", "app_dtor_wait"} \cup DtorFlushPcs \cup {"engine_dtor", "done"}
    /\ exitWhy = "none"
    /\ R("imm.fence", 0) \notin alive
    /\ DestroyedAt("imm.fence") = {}

C23_FrameFailureEndsRun ==
    [][/\ (pc \in FramePcs /\ pc' \notin FramePcs) =>
            \/ pc = "ff_advance" /\ pc' = "run_poll" /\ exitWhy' = "none"
            \/ pc = "ff_present" /\ pc' = "refresh_wait" /\ exitWhy' = "none"
            \/ pc' = "app_dtor" /\ exitWhy' = "frame_failed"
       /\ exitWhy' = "frame_failed" =>
            /\ frameNo' = frameNo
            /\ pc' \notin FramePcs \cup {"run_poll", "refresh_wait", "refresh_rebuild"}
       /\ exitWhy = "frame_failed" =>
            /\ exitWhy' = "frame_failed"
            /\ recorded' = recorded
            /\ inflight' \subseteq inflight
            /\ refreshCalls' = refreshCalls]_vars

\* The acquire of the second frame failed and the program has ended: two
\* frames were started, not three.
C23_Witness ==
    /\ exitWhy = "frame_failed"
    /\ pc = "done"
    /\ lastAcquire = "VK_ERROR_DEVICE_LOST"
    /\ frameNo = 2
    /\ completedFrames = {1}

\* C24: after delete_all the queue is empty, and a delete_all that follows
\* another with no add in between finds nothing and runs no closure: what
\* the first one ran is not run again.
C24_FlushedQueueIsEmpty ==
    /\ tflushes >= 1 => tq = <<>>
    /\ tflushes = 2 => (tqBefore = <<>> /\ tlog = <<>>)

\* delete_all has been called twice in a row, with no add in between.
C24_Witness ==
    /\ tflushes = 2
    /\ tq = <<>>
    /\ tlog = <<>>

\* The bytes a recorded copy region reads from the staging buffer.
RegionRead(buffer, region) ==
    SubSeq(buffer, region.srcOffset + 1, region.srcOffset + region.size)

\* C25: when create_mesh has succeeded the vertex buffer holds the bytes of
\* the vertex span and the index buffer those of the index span; before the
\* submit the staging buffer holds the vertices from offset 0 and the indices
\* from offset vertex_buffer_size, and the two recorded regions read exactly
\* these two ranges, which lie inside the staging buffer and do not overlap.
C25_UploadRoundTrip ==
    /\ mpc = "succeeded" => (vertex_buffer = vertices /\ index_buffer = indices)
    /\ mpc \in {"record", "submit"} =>
         /\ SubSeq(transfer_buffer, 1, Len(vertices)) = vertices
         /\ SubSeq(transfer_buffer, Len(vertices) + 1, Len(vertices) + Len(indices)) = indices
    /\ mpc = "submit" =>
         /\ RegionRead(transfer_buffer, copies[1]) = vertices
         /\ RegionRead(transfer_buffer, copies[2]) = indices
         /\ copies[1].srcOffset + copies[1].size <= copies[2].srcOffset
         /\ copies[2].srcOffset + copies[2].size <= Len(transfer_buffer)
         /\ copies[1].dstOffset = 0 /\ copies[2].dstOffset = 0

\* A mesh of two vertices and three indices has been uploaded.
C25_Witness ==
    /\ mpc = "succeeded"
    /\ Len(vertices) = 2 * SizeofVertex
    /\ Len(indices) = 3 * SizeofIndex
    /\ vertex_buffer[SizeofVertex + 1] = <<"vertex", SizeofVertex + 1>>
    /\ index_buffer[1] = <<"index", 1>>

C27_FlushAfterFenceWait ==
    [][/\ (pc' = "sf_flush" /\ pc # "sf_flush")
            => pc = "sf_reset_fence" /\ m_frame_idx \notin inflight
       /\ pc = "sf_flush" => m_frame_idx \notin inflight
       /\ (pc = "sf_flush" /\ pc' # "sf_flush")
            => /\ pc' = "sf_acquire"
               /\ cmd'[m_frame_idx] = cmd[m_frame_idx]
               /\ cmd[m_frame_idx] \in {"initial", "executable"}
               /\ recorded' = recorded
       /\ (pc' = "sf_reset_cmd" /\ pc # "sf_reset_cmd") => pc = "sf_acquire"
       /\ frameDq' # frameDq => pc = "sf_flush"]_vars

\* The flush of a slot that was submitted before, while the GPU still works
\* on the other slot.
C27_Witness ==
    /\ pc = "sf_flush"
    /\ frameNo > NUM_FRAMES_IN_FLIGHT
    /\ recorded[m_frame_idx] = render_frame_commands
    /\ inflight # {}

\* The positions of the barriers of an image in a list of recorded commands,
\* and the positions of the blits.
BarriersOf(cmds, image) ==
    {j \in 1 .. Len(cmds) : cmds[j].op = "vkCmdPipelineBarrier2" /\ cmds[j].image = image}

BlitsOf(cmds) == {j \in 1 .. Len(cmds) : cmds[j].op = "vkCmdBlitImage2"}

\* C28: in the commands of every recorded frame, at every blit the last
\* barrier of the render target before it goes from GENERAL to
\* TRANSFER_SRC_OPTIMAL and the last barrier of the swapchain image before it
\* goes from UNDEFINED to TRANSFER_DST_OPTIMAL; the last barrier of the
\* swapchain image in the frame goes to PRESENT_SRC_KHR.
C28_BlitTransitions ==
    \A s \in Slots :
      LET cmds == recorded[s] IN
      cmds # <<>> =>
        /\ BlitsOf(cmds) # {}
        /\ \A b \in BlitsOf(cmds) :
             /\ cmds[b].src_image = RenderTargetImage /\ cmds[b].image = SwapchainImage
             /\ \E j \in BarriersOf(cmds, RenderTargetImage) :
                  /\ j < b
                  /\ \A k \in BarriersOf(cmds, RenderTargetImage) : k < b => k <= j
                  /\ cmds[j].oldLayout = "VK_IMAGE_LAYOUT_GENERAL"
                  /\ cmds[j].newLayout = "VK_IMAGE_LAYOUT_TRANSFER_SRC_OPTIMAL"
             /\ \E j \in BarriersOf(cmds, SwapchainImage) :
                  /\ j < b
                  /\ \A k \in BarriersOf(cmds, SwapchainImage) : k < b => k <= j
                  /\ cmds[j].oldLayout = "VK_IMAGE_LAYOUT_UNDEFINED"
                  /\ cmds[j].newLayout = "VK_IMAGE_LAYOUT_TRANSFER_DST_OPTIMAL"
        /\ \E j \in BarriersOf(cmds, SwapchainImage) :
             /\ \A k \in BarriersOf(cmds, SwapchainImage) : k <= j
             /\ cmds[j].newLayout = "VK_IMAGE_LAYOUT_PRESENT_SRC_KHR"

\* A recorded frame has been submitted.
C28_Witness ==
    \E s \in Slots : s \in inflight /\ recorded[s] # <<>> /\ cmd[s] = "pending"

\* C29: m_swapchain.generation is 0 at the start; no step makes it smaller;
\* the step that ends a call of refresh_swapchain, whether init_swapchain
\* succeeded in it or not, adds exactly one to it; and no other step changes
\* it, the init_swapchain call of Engine::init among them.
C29_GenerationCounts ==
    /\ m_swapchain.generation = 0
    /\ [][/\ m_swapchain'.generation >= m_swapchain.generation
          /\ (pc = "refresh_rebuild" /\ pc' # pc)
               => /\ lastRefresh' \in {"ok", "failed"}
                  /\ m_swapchain'.generation = m_swapchain.generation + 1
          /\ m_swapchain'.generation # m_swapchain.generation
               => pc = "refresh_rebuild"
          /\ (pc = "engine_init" /\ pc' # pc) => m_swapchain'.generation = 0]_vars

\* Two calls of refresh_swapchain have returned, the second with a failure of
\* init_swapchain, and the swapchain of Engine::init had been built.
C29_Witness ==
    /\ lastRefresh = "failed"
    /\ refreshCalls = 2
    /\ m_swapchain.generation = 2
    /\ \E i \in 1 .. Len(m_deletion_queue) : m_deletion_queue[i] = R("swapchain_guard", 0)

RefreshPcs == {"refresh_wait", "refresh_rebuild"}

\* C30: the step of App::run that handles a resize event calls
\* refresh_swapchain, whether rendering is disabled or not, and every call
\* App::run makes is for one resize event; until that call returns no frame is
\* started and no other call is made; when it returns a failure the loop is
\* left, and after that no frame is started and no call is made any more.
C30_ResizeRefreshesOnce ==
    [][/\ resizes' # resizes
            => /\ resizes' = resizes + 1
               /\ pc = "run_poll" /\ pc' = "refresh_wait"
               /\ refreshCaller' = "run"
               /\ refreshCalls' = refreshCalls + 1
               /\ frameNo' = frameNo
       /\ (refreshCalls' # refreshCalls /\ refreshCaller' = "run")
            => resizes' = resizes + 1
       /\ (pc \in RefreshPcs /\ refreshCaller = "run")
            => /\ refreshCalls' = refreshCalls /\ resizes' = resizes
               /\ pc' \notin FramePcs \/ (pc = "refresh_rebuild" /\ lastRefresh' = "ok")
               /\ frameNo' # frameNo => (pc = "refresh_rebuild" /\ lastRefresh' = "ok")
               /\ (pc = "refresh_rebuild" /\ lastRefresh' = "failed")
                    => pc' = "app_dtor" /\ exitWhy' = "resize_failed"
       /\ exitWhy = "resize_failed"
            => /\ exitWhy' = "resize_failed"
               /\ frameNo' = frameNo
               /\ pc' \notin FramePcs \cup {"run_poll"} \cup RefreshPcs
               /\ refreshCalls' = refreshCalls]_vars

\* Two resize events were handled while rendering was disabled; the call for
\* the second one failed and the loop was left.
C30_Witness ==
    /\ exitWhy = "resize_failed"
    /\ m_disable_render
    /\ resizes = 2
    /\ refreshCalls = 2
    /\ frameNo = 0

\* A quit event waits in the stream of the running loop.
QuitWaiting == lpc # "idle" /\ "quit" \in Range(event_queue)

LoopFailures == {"frame_failed", "resize_failed"}

\* The poll of a quit event returns from App::run, and after the return no
\* frame is started.
QuitReturns ==
    [][/\ (lpc = "poll" /\ polled' # polled /\ Head(event_queue) = "quit")
            => lpc' = "returned" /\ loop_exit' = "quit" /\ loop_inflight' = loop_inflight
       /\ lpc = "returned"
            => /\ lpc' = "returned" /\ loop_exit' = loop_exit
               /\ rendered' = rendered /\ polled' = polled
               /\ loop_inflight' \subseteq loop_inflight]_vars

\* C31 as stated: the poll of a quit event returns from App::run without
\* another frame, and, the GPU finishing every submission, a quit event that
\* waits in the stream is polled in the end and ends the loop.
C31_QuitIsPolled ==
    /\ QuitReturns
    /\ QuitWaiting ~> (loop_exit = "quit")

\* C31 amended: the poll of a quit event returns from App::run without
\* another frame, and, the GPU finishing every submission, a quit event that
\* waits in the stream is polled in the end unless a frame or a resize has
\* failed before; either way the loop ends.
C31_QuitEndsLoop ==
    /\ QuitReturns
    /\ QuitWaiting ~> (lpc = "returned" /\ loop_exit \in {"quit"} \cup LoopFailures)
    /\ [](loop_exit \in LoopFailures \/ loop_exit = "none" \/ last_event = "quit")

\* The loop has returned for a quit event that waited behind two other
\* events, with a submission still unfinished.
C31_Witness ==
    /\ lpc = "returned"
    /\ loop_exit = "quit"
    /\ polled = 3
    /\ loop_inflight # {}

\* C40: a poll takes at most one event out of the stream and nothing else
\* takes any; a frame is started only after the poll of its iteration; at the
\* top of every iteration but the first, the iteration before it has rendered
\* exactly one frame when rendering is enabled and none when it is disabled;
\* and as long as events are left, or the last one was just taken, there
\* have been as many iterations as events taken.
C40_OneEventPerIteration ==
    /\ []((lpc = "poll" /\ polls >= 1)
            => rendered = (IF loop_disable_render THEN 0 ELSE 1))
    /\ []((lpc # "idle" /\ (event_queue # <<>> \/ last_event # "none"))
            => polled = polls)
    /\ [][/\ (lpc # "idle" /\ event_queue' # event_queue)
               => /\ lpc = "poll"
                  /\ event_queue' = Tail(event_queue)
                  /\ polled' = polled + 1
          /\ polls' # polls => lpc = "poll" /\ polls' = polls + 1
          /\ (lpc' = "start_frame" /\ lpc # "start_frame")
               => lpc \in {"poll", "refresh"} /\ ~loop_disable_render'
          /\ rendered' > rendered
               => lpc \in {"finish_frame", "frame_refresh"} /\ lpc' = "poll"]_vars

\* Two events have been taken in two iterations, a third one waits, and the
\* second iteration has rendered its frame.
C40_Witness ==
    /\ lpc = "poll"
    /\ polls = 2 /\ polled = 2
    /\ rendered = 1
    /\ event_queue # <<>>

\* The swapchains and the sets of image views created so far.
SwapchainObjects ==
    {R(k, id) : k \in {"swapchain", "image_views"}, id \in 1 .. (nextSc - 1)}

\* The entries of init_swapchain in m_deletion_queue that act when the queue
\* is flushed now: those whose captured generation is the live one.
ActingGuards ==
    {i \in GuardPositions : m_deletion_queue[i].arg = m_swapchain.generation}

\* C32: as long as every refresh_swapchain call has succeeded, each swapchain
\* and each set of views created so far is either the live one, not destroyed
\* yet, or was destroyed exactly once; a successful refresh destroys the live
\* ones once; in the flush of the Engine's destructor exactly one entry of
\* init_swapchain acts, the last one, every other one changes nothing, and
\* the flush destroys the live swapchain and views and no other; after it
\* every swapchain and set of views ever created has been destroyed exactly
\* once.
C32_SwapchainsDestroyedOnce ==
    /\ [](lastRefresh \in {"none", "ok"} =>
            /\ \A r \in SwapchainObjects :
                 IF r \in alive THEN Destroyed(r) = 0 ELSE Destroyed(r) = 1
            /\ \A r \in SwapchainObjects : r \in alive => r.arg = m_swapchain.swapchain
            /\ pc = "done" => \A r \in SwapchainObjects : Destroyed(r) = 1)
    /\ [][/\ (pc = "refresh_rebuild" /\ pc' # pc /\ lastRefresh' = "ok")
               => /\ R("swapchain", m_swapchain.swapchain) \in alive \ alive'
                  /\ R("image_views", m_swapchain.image_views) \in alive \ alive'
          /\ (pc = "engine_dtor_flush" /\ pc' = "done" /\ lastRefresh \in {"none", "ok"}
                /\ nextSc > 1)
               => /\ Cardinality(ActingGuards) = 1
                  /\ \A i \in GuardPositions : \A j \in ActingGuards : i <= j
                  /\ \A i \in GuardPositions \ ActingGuards :
                       LET before == FlushUpTo(i)
                           after == RunClosure(before, m_deletion_queue[i])
                       IN  after.alive = before.alive /\ after.log = before.log
                  /\ {r \in SwapchainObjects : r \in alive \ alive'}
                       = {R("swapchain", m_swapchain.swapchain),
                          R("image_views", m_swapchain.image_views)}]_vars

\* The program has ended after two successful refreshes: three swapchains
\* were created.
C32_Witness ==
    /\ pc = "done"
    /\ lastRefresh = "ok"
    /\ refreshCalls = 2
    /\ nextSc = 4
    /\ \A r \in SwapchainObjects : Destroyed(r) = 1

\* C33: once init_swapchain has failed inside refresh_swapchain, no entry of
\* m_deletion_queue holds the live generation, and from then on through the
\* flush of the Engine's destructor to the end of the program every swapchain
\* and set of views ever created stays destroyed exactly once, none of them
\* destroyed while it did not exist.
C33_FailedRefreshNoDoubleDestroy ==
    lastRefresh = "failed" =>
        /\ ActingGuards = {}
        /\ m_swapchain.generation = refreshCalls
        /\ \A r \in SwapchainObjects :
             r \notin alive /\ Destroyed(r) = 1 /\ r \notin misuse

\* The program has ended after a successful refresh and a failed one, the
\* Engine's queue flushed.
C33_Witness ==
    /\ pc = "done"
    /\ lastRefresh = "failed"
    /\ refreshCalls = 2
    /\ nextSc = 3
    /\ Cardinality({i \in 1 .. Len(destroyLog) : destroyLog[i].kind = "swapchain"}) = 2

\* C34: whenever start_frame waits for a slot's fence, the fence is signaled
\* or a submission of that slot is unfinished, whose completion signals it,
\* and no call of start_frame or finish_frame has failed before; so, the GPU
\* finishing every submission, the fence becomes signaled and the wait
\* returns.
C34_FenceWaitReturns ==
    /\ [](pc = "sf_wait" =>
            /\ fence[m_frame_idx] \/ m_frame_idx \in inflight
            /\ exitWhy = "none")
    /\ (pc = "sf_wait") ~> (pc # "sf_wait" \/ fence[m_frame_idx])

\* start_frame waits for the fence of a slot that was reset and submitted
\* before and whose submission the GPU has not finished.
C34_Witness ==
    /\ pc = "sf_wait"
    /\ ~fence[m_frame_idx]
    /\ m_frame_idx \in inflight
    /\ frameNo > NUM_FRAMES_IN_FLIGHT

\* The positions of render_frame from the return of vkAcquireNextImageKHR to
\* the queue submit: the image index of start_frame is in use.
AcquiredPcs == {"sf_reset_cmd", "sf_begin", "record", "ff_end", "ff_submit"}

\* C35: refresh_swapchain is entered only from the event handling of App::run
\* and from finish_frame after its queue submit; while it runs no slot's
\* command buffer is being recorded; and from the acquisition of the image to
\* the queue submit the swapchain stays the one the image was acquired from,
\* alive and with the same generation.
C35_NoRefreshWhileRecording ==
    /\ [](pc \in RefreshPcs => \A s \in Slots : cmd[s] # "recording")
    /\ [](pc \in AcquiredPcs => R("swapchain", m_swapchain.swapchain) \in alive)
    /\ [][/\ (pc' \in RefreshPcs /\ pc \notin RefreshPcs)
               => /\ pc \in {"run_poll", "ff_present"}
                  /\ pc = "ff_present" => m_frame_idx \in inflight \/ cmd[m_frame_idx] # "recording"
          /\ pc \in AcquiredPcs
               => /\ m_swapchain' = m_swapchain
                  /\ pc' \notin RefreshPcs
                  /\ R("swapchain", m_swapchain.swapchain) \in alive']_vars

\* A frame is being recorded on a swapchain that an earlier refresh built.
C35_Witness ==
    /\ pc = "ff_end"
    /\ cmd[m_frame_idx] = "recording"
    /\ refreshCalls >= 1
    /\ lastRefresh = "ok"
    /\ m_swapchain.generation = refreshCalls

\* C36: m_frame_idx changes only in the last step of a finish_frame that
\* returns true, to the next slot; so the slot whose command buffer is ended
\* and submitted, and whose fence the submit carries, is the slot whose fence
\* start_frame waited for and reset and whose command buffer it began.
C36_SlotFixedDuringFrame ==
    /\ [](pc \in {"ff_end", "ff_submit"} =>
            /\ ~fence[m_frame_idx]
            /\ m_frame_idx \notin inflight
            /\ cmd[m_frame_idx] = (IF pc = "ff_end" THEN "recording" ELSE "executable")
            /\ recorded[m_frame_idx] = render_frame_commands)
    /\ [][/\ m_frame_idx' # m_frame_idx
               => /\ pc = "ff_advance" /\ pc' = "run_poll"
                  /\ m_frame_idx' = (m_frame_idx + 1) % NUM_FRAMES_IN_FLIGHT
                  /\ exitWhy' = "none"
          /\ inflight' \ inflight # {}
               => /\ pc = "ff_submit" /\ pc' = "ff_present"
                  /\ inflight' \ inflight = {m_frame_idx}
                  /\ inflightFrame'[m_frame_idx] = frameNo
          /\ (pc \in FramePcs /\ pc' \in FramePcs) => m_frame_idx' = m_frame_idx]_vars

\* The second slot's frame has been submitted, the first one's still
\* unfinished.
C36_Witness ==
    /\ pc = "ff_present"
    /\ m_frame_idx = 1
    /\ inflight = Slots
    /\ inflightFrame[1] = frameNo

\* C37: the present step of finish_frame goes on to the end of the function
\* on VK_SUCCESS and calls refresh_swapchain on every other result, once, and
\* does not fail the frame by itself; finish_frame returns true when that
\* call succeeds; and a frame fails inside finish_frame only at
\* vkEndCommandBuffer, at the queue submit, or when that call fails.
C37_PresentResultRefreshes ==
    [][/\ (pc = "ff_present" /\ pc' # pc)
            => /\ exitWhy' = "none"
               /\ IF lastPresent' = "VK_SUCCESS"
                  THEN pc' = "ff_advance" /\ refreshCalls' = refreshCalls
                  ELSE /\ pc' = "refresh_wait"
                       /\ refreshCaller' = "finish_frame"
                       /\ refreshCalls' = refreshCalls + 1
       /\ (pc \in RefreshPcs /\ refreshCaller = "finish_frame")
            => /\ refreshCalls' = refreshCalls
               /\ lastPresent' = lastPresent /\ lastPresent # "VK_SUCCESS"
               /\ (pc = "refresh_rebuild" /\ lastRefresh' = "ok")
                    => pc' = "ff_advance" /\ exitWhy' = "none"
               /\ (pc = "refresh_rebuild" /\ lastRefresh' = "failed")
                    => pc' = "app_dtor" /\ exitWhy' = "frame_failed"
       /\ (exitWhy' = "frame_failed" /\ exitWhy = "none"
             /\ pc \in {"ff_end", "ff_submit", "ff_present", "ff_advance"} \cup RefreshPcs)
            => \/ pc \in {"ff_end", "ff_submit"}
               \/ pc = "refresh_rebuild" /\ lastRefresh' = "failed"]_vars

\* finish_frame is about to return true after a present that lost the
\* device and a refresh that succeeded.
C37_Witness ==
    /\ pc = "ff_advance"
    /\ lastPresent = "VK_ERROR_DEVICE_LOST"
    /\ refreshCaller = "finish_frame"
    /\ lastRefresh = "ok"
    /\ refreshCalls = 1
    /\ exitWhy = "none"

\* create_mesh or create_image_from_file runs the destroys that follow the
\* return of immediate_submit.
UploadDestroys ==
    /\ pc \in ImmReturnedPcs
    /\ pc' # pc

\* C38: whenever create_mesh or create_image_from_file destroys the staging
\* buffer, the destination buffers or the image, the immediate submission that
\* copies between them is no longer executing on the GPU, also when
\* immediate_submit returned false after vkQueueSubmit2 succeeded.
C38_NoDestroyWhileUploading == [][UploadDestroys => immInflight = 0]_vars

\* The images of the forward pass.
ForwardTargets == {RenderTargetImage, DepthTargetImage}

\* The <<image, layout>> pairs a recorded command names for the images of the
\* forward pass: the old layout of a barrier, the layout given to a clear, the
\* layouts of the attachments of a rendering.
NamedLayouts(c) ==
    LET named ==
          CASE c.op = "vkCmdPipelineBarrier2" -> {<<c.image, c.oldLayout>>}
            [] c.op = "vkCmdClearColorImage" -> {<<c.image, c.imageLayout>>}
            [] c.op = "vkCmdBeginRendering" ->
                 {<<c.image, c.imageLayout>>}
                 \cup (IF "depthImage" \in DOMAIN c
                       THEN {<<c.depthImage, c.depthLayout>>} ELSE {})
            [] OTHER -> {}
    IN  {n \in named : n[1] \in ForwardTargets}

\* C39: in every recorded frame each command that names a layout for the
\* render target or the depth target of the forward pass names the layout the
\* barriers recorded before it in that command buffer leave the image in.
C39_NamedLayoutsMatch ==
    \A s \in Slots :
        \A i \in DOMAIN recorded[s] :
            \A n \in NamedLayouts(recorded[s][i]) :
                n[2] = LayoutAfter(recorded[s], n[1], i - 1)

====
